---- MODULE Spec2Model ----
(***************************************************************************)
(* Model of the type-erasing "interface" handle of impl/interface.hpp.     *)
(*                                                                         *)
(* A handle owns a heap buffer (_ptr), points to the thunk of the wrapped  *)
(* type (_t) and carries a tuple of erased method pointers (_vtable).      *)
(* Two contracts are instantiated:                                         *)
(*   Rich   = INTERFACE_2(area, grow)                                      *)
(*   Narrow = INTERFACE_1(grow)                                            *)
(* and the program has two places, h1 and h2, where a handle of either     *)
(* contract can live.                                                      *)
(* Wrapped types are two copy-constructible value types (Square, Circle),  *)
(* the pointer types to them, whose values are the addresses of the        *)
(* external objects of Ext, and a move-only type (Unique) that the value   *)
(* constructor refuses.  The thunks, one per non-pointer type and one for  *)
(* all pointer types, are static storage that every handle points into.    *)
(* Spec runs the operations one at a time, SpecObs adds target, == and !=, *)
(* and SpecRace runs two unsynchronised assignments to one handle step by  *)
(* step.                                                                   *)
(***************************************************************************)
EXTENDS Integers, Sequences, FiniteSets, TLC

VARIABLES handle, heap, ext, last, thr, thunks

vars == <<handle, heap, ext, last, thr, thunks>>

----------------------------------------------------------------------------
(* Bounds and inputs *)

\* Payload values range over 0..MaxVal.
MaxVal == 1

Vals == 0..MaxVal

\* The places of the program where a handle object can live.
H == {"h1", "h2"}

Contracts == {"Rich", "Narrow"}

\* The ordered method names of each contract (the macro's METHOD_NAMEi).
Methods(C) == IF C = "Rich" THEN <<"area", "grow">> ELSE <<"grow">>

\* A handle of contract D can be built from one of contract S when every
\* get_METHOD the construct of D names exists for S (else no compile).
Compatible(D, S) ==
    \A i \in 1..Len(Methods(D)) : \E j \in 1..Len(Methods(S)) : Methods(S)[j] = Methods(D)[i]

ValueTypes == {"Square", "Circle"}

PtrTypes == {"Square*", "Circle*"}

\* A type with a move constructor and no copy constructor.
MoveOnlyTypes == {"Unique"}

\* The types a program can name as T of interface(T&&) and of target<T>.
Types == ValueTypes \cup PtrTypes \cup MoveOnlyTypes

\* std::is_constructible_v<T, const T&>
is_copy_constructible(T) == T \notin MoveOnlyTypes

\* nullptr, for data pointers.
NULL == 0

\* Heap addresses: one buffer per handle plus the temporary of operator=.
Addr == 1..(Cardinality(H) + 1)

\* The addresses of the external objects x (a Square) and y (a Circle).
Ext == {11, 12}

ExtType(e) == IF e = 11 THEN "Square" ELSE "Circle"

\* std::is_pointer_v<T>
is_pointer(T) == T \in PtrTypes \/ T = "void*"

\* The values a T can be constructed from: a payload, or an object address.
InitVals(T) ==
    IF T \in ValueTypes \cup MoveOnlyTypes THEN Vals
    ELSE {e \in Ext : T = (IF ExtType(e) = "Square" THEN "Square*" ELSE "Circle*")}

\* sizeof(T)
SizeOf(T) == IF T = "Square" THEN 1 ELSE IF T = "Circle" THEN 2 ELSE 3

----------------------------------------------------------------------------
(* interface_detail: thunks *)

\* Address of thunk_storage<T>::t, "null" for nullptr.
NullThunk == "null"

\* Mutant: every pointer type has a thunk of its own.
get_thunk_per_type(T) == T

\* Mutant: every type shares the thunk of void*.
get_thunk_shared(T) == "void*"

\* get_thunk<T>(): the address of thunk_storage<T>::t, and of
\* thunk_storage<void*>::t for every pointer type T.
get_thunk(T) == IF is_pointer(T) THEN "void*" ELSE T

is_pointer_thunk(t) == t = get_thunk("void*")

\* The addresses of the thunks of the program: one thunk_storage<T>::t for
\* each non-pointer type and thunk_storage<void*>::t.
Thunks == {get_thunk(T) : T \in Types}

\* thunk_storage<T>::t: whether copy, move and destroy are function pointers
\* (TRUE) or nullptr (FALSE), and size.  thunk_storage<T, false>, of a T
\* that is not copy constructible, has neither copy nor move.
thunk_storage(T) ==
    [copy |-> is_copy_constructible(T), move |-> is_copy_constructible(T),
     destroy |-> TRUE, size |-> SizeOf(T)]

\* t->copy and t->move are not nullptr, for the thunk at address t.
has_copy(t) == t # NullThunk /\ thunks[t].copy

has_move(t) == t # NullThunk /\ thunks[t].move

\* t->size
thunk_size(t) == thunks[t].size

\* What T's move constructor leaves in the source: a Square is trivially
\* copied, a Circle gives its state away, a pointer is copied.
MovedFrom(T, v) == IF T = "Circle" THEN 0 ELSE v

FreeCell == [st |-> "free", size |-> 0, T |-> "none", val |-> 0]

\* new std::byte[n] returns the lowest free address.
NewAddr(hp) == CHOOSE p \in Addr : hp[p].st = "free" /\ \A q \in Addr : hp[q].st = "free" => p <= q

new_bytes(hp, p, n) == [hp EXCEPT ![p] = [st |-> "raw", size |-> n, T |-> "none", val |-> 0]]

\* Mutant: delete[] gives nothing back.
delete_bytes_noop(hp, p) == hp

\* delete[] p; deleting nullptr does nothing.
delete_bytes(hp, p) == IF p = NULL THEN hp ELSE [hp EXCEPT ![p] = FreeCell]

\* new (dst) T{v}
placement_new(hp, dst, T, v) == [hp EXCEPT ![dst].st = "obj", ![dst].T = T, ![dst].val = v]

\* Mutant: the copy thunk value-initialises the new object.
thunk_copy_default(hp, t, dst, src) == placement_new(hp, dst, t, 0)

\* thunk::copy of thunk t: new (dst) T{*src}
thunk_copy(hp, t, dst, src) == placement_new(hp, dst, t, hp[src].val)

\* Mutant: the move thunk copies, leaving the source as it was.
thunk_move_as_copy(hp, t, dst, src) == placement_new(hp, dst, t, hp[src].val)

\* thunk::move of thunk t: new (dst) T{std::move(*src)}
thunk_move(hp, t, dst, src) ==
    [placement_new(hp, dst, t, hp[src].val) EXCEPT ![src].val = MovedFrom(t, hp[src].val)]

\* thunk::destroy: p->~T(); the buffer stays allocated.
thunk_destroy(hp, p) == [hp EXCEPT ![p].st = "raw", ![p].T = "none", ![p].val = 0]

----------------------------------------------------------------------------
(* The interface class *)

\* A null entry of _vtable, and the erased method erasure_fn<SIG,
\* METHOD##_i_factory<U>>::value of contract C for method m and type U.
NullFn == [c |-> "null", m |-> "null", T |-> "null"]

erasure_fn(C, m, U) == [c |-> C, m |-> m, T |-> U]

\* The members of a default-initialised interface of contract C.
EmptyFields(C) ==
    [ptr |-> NULL, t |-> NullThunk, vtable |-> [i \in 1..Len(Methods(C)) |-> NullFn]]

\* A place with no handle in its lifetime, and one holding a handle of
\* contract C with the given members.
Dead == [live |-> FALSE, c |-> "none", f |-> EmptyFields("Narrow")]

Live(C, fields) == [live |-> TRUE, c |-> C, f |-> fields]

\* Mutant: get_METHOD returns the first entry of the table for every
\* method.
get_method_first(S, i, m) == i.vtable[1]

\* get_METHOD(i, tag): the entry of i's _vtable at the position m has in
\* i's contract S.
get_method(S, i, m) == i.vtable[CHOOSE j \in 1..Len(Methods(S)) : Methods(S)[j] = m]

\* explicit operator bool
to_bool(i) == i.ptr # NULL

\* Mutant: swap exchanges _ptr only.
swap_ptr_only(x, y) == <<[x EXCEPT !.ptr = y.ptr], [y EXCEPT !.ptr = x.ptr]>>

\* Mutant: swap exchanges _ptr and _t and leaves each _vtable where it is.
swap_no_table(x, y) == <<[y EXCEPT !.vtable = x.vtable], [x EXCEPT !.vtable = y.vtable]>>

\* Mutant: swap gives x the members of y and leaves y as it is.
swap_assign(x, y) == <<y, y>>

\* swap(x, y): the pair of members after the three member swaps.
swap(x, y) == <<y, x>>

\* Mutant: the value constructor holds the buffer in _ptr, not in a
\* unique_ptr, while U's constructor runs.
value_ctor_raw_new(C, hp, U, v, out) ==
    IF out = "bad_alloc"
    THEN [thrown |-> TRUE, me |-> EmptyFields(C), hp |-> hp, ev |-> <<<<"new_fail", NULL>>>>]
    ELSE LET buf == NewAddr(hp)
             hp1 == new_bytes(hp, buf, SizeOf(U))
         IN  IF out = "throw"
             THEN [thrown |-> TRUE, me |-> [EmptyFields(C) EXCEPT !.ptr = buf], hp |-> hp1,
                   ev |-> <<<<"new", buf>>, <<"install", buf>>, <<"ctor_throw", buf>>>>]
             ELSE [thrown |-> FALSE,
                   me |-> [ptr |-> buf, t |-> get_thunk(U),
                           vtable |-> [i \in 1..Len(Methods(C)) |-> erasure_fn(C, Methods(C)[i], U)]],
                   hp |-> placement_new(hp1, buf, U, v),
                   ev |-> <<<<"new", buf>>, <<"install", buf>>, <<"ctor", buf>>>>]

\* Mutant: the value constructor leaves _t unset.
value_ctor_no_thunk(C, hp, U, v, out) ==
    IF out = "bad_alloc"
    THEN [thrown |-> TRUE, me |-> EmptyFields(C), hp |-> hp, ev |-> <<<<"new_fail", NULL>>>>]
    ELSE LET buf == NewAddr(hp)
             hp1 == new_bytes(hp, buf, SizeOf(U))
         IN  IF out = "throw"
             THEN [thrown |-> TRUE, me |-> EmptyFields(C), hp |-> delete_bytes(hp1, buf),
                   ev |-> <<<<"new", buf>>, <<"ctor_throw", buf>>, <<"delete", buf>>>>]
             ELSE [thrown |-> FALSE,
                   me |-> [ptr |-> buf, t |-> NullThunk,
                           vtable |-> [i \in 1..Len(Methods(C)) |-> erasure_fn(C, Methods(C)[i], U)]],
                   hp |-> placement_new(hp1, buf, U, v),
                   ev |-> <<<<"new", buf>>, <<"ctor", buf>>, <<"install", buf>>>>]

\* The value constructor interface(T&& t) of contract C, for U = decay_t<T>
\* and value v.  out chooses whether new throws, U's constructor throws, or
\* neither.  me is the object's members when the constructor ends.
value_ctor(C, hp, U, v, out) ==
    IF out = "bad_alloc"
    THEN [thrown |-> TRUE, me |-> EmptyFields(C), hp |-> hp, ev |-> <<<<"new_fail", NULL>>>>]
    ELSE LET buf == NewAddr(hp)
             hp1 == new_bytes(hp, buf, SizeOf(U))
         IN  IF out = "throw"
             THEN [thrown |-> TRUE, me |-> EmptyFields(C), hp |-> delete_bytes(hp1, buf),
                   ev |-> <<<<"new", buf>>, <<"ctor_throw", buf>>, <<"delete", buf>>>>]
             ELSE [thrown |-> FALSE,
                   me |-> [ptr |-> buf, t |-> get_thunk(U),
                           vtable |-> [i \in 1..Len(Methods(C)) |-> erasure_fn(C, Methods(C)[i], U)]],
                   hp |-> placement_new(hp1, buf, U, v),
                   ev |-> <<<<"new", buf>>, <<"ctor", buf>>, <<"install", buf>>>>]

\* Mutant: construct moves from an lvalue or const source and copies from
\* a non-const rvalue.
construct_inverted(C, S, hp, i, rvalue, out) ==
    IF ~to_bool(i)
    THEN [thrown |-> FALSE, me |-> EmptyFields(C), hp |-> hp, ev |-> <<>>]
    ELSE IF out = "bad_alloc"
    THEN [thrown |-> TRUE, me |-> EmptyFields(C), hp |-> hp, ev |-> <<<<"new_fail", NULL>>>>]
    ELSE LET p == i.ptr
             t == i.t
             buf == NewAddr(hp)
             hp1 == new_bytes(hp, buf, thunk_size(t))
             op == IF rvalue THEN "copy" ELSE "move"
             opthrow == IF rvalue THEN "copy_throw" ELSE "move_throw"
         IN  IF out = "throw"
             THEN [thrown |-> TRUE, me |-> EmptyFields(C), hp |-> delete_bytes(hp1, buf),
                   ev |-> <<<<"new", buf>>, <<opthrow, buf>>, <<"delete", buf>>>>]
             ELSE [thrown |-> FALSE,
                   me |-> [ptr |-> buf, t |-> t,
                           vtable |-> [k \in 1..Len(Methods(C)) |-> get_method(S, i, Methods(C)[k])]],
                   hp |-> IF rvalue THEN thunk_copy(hp1, t, buf, p) ELSE thunk_move(hp1, t, buf, p),
                   ev |-> <<<<"new", buf>>, <<op, buf>>, <<"install", buf>>>>]

\* Mutant: construct takes the entries of the source's table by position,
\* not by method name.
construct_by_position(C, S, hp, i, rvalue, out) ==
    IF ~to_bool(i)
    THEN [thrown |-> FALSE, me |-> EmptyFields(C), hp |-> hp, ev |-> <<>>]
    ELSE IF out = "bad_alloc"
    THEN [thrown |-> TRUE, me |-> EmptyFields(C), hp |-> hp, ev |-> <<<<"new_fail", NULL>>>>]
    ELSE LET p == i.ptr
             t == i.t
             buf == NewAddr(hp)
             hp1 == new_bytes(hp, buf, thunk_size(t))
             op == IF rvalue THEN "move" ELSE "copy"
             opthrow == IF rvalue THEN "move_throw" ELSE "copy_throw"
         IN  IF out = "throw"
             THEN [thrown |-> TRUE, me |-> EmptyFields(C), hp |-> delete_bytes(hp1, buf),
                   ev |-> <<<<"new", buf>>, <<opthrow, buf>>, <<"delete", buf>>>>]
             ELSE [thrown |-> FALSE,
                   me |-> [ptr |-> buf, t |-> t,
                           vtable |-> [k \in 1..Len(Methods(C)) |-> i.vtable[k]]],
                   hp |-> IF rvalue THEN thunk_move(hp1, t, buf, p) ELSE thunk_copy(hp1, t, buf, p),
                   ev |-> <<<<"new", buf>>, <<op, buf>>, <<"install", buf>>>>]

\* Mutant: construct without the emptiness check allocates for an empty
\* source too.
construct_no_check(C, S, hp, i, rvalue, out) ==
    IF out = "bad_alloc"
    THEN [thrown |-> TRUE, me |-> EmptyFields(C), hp |-> hp, ev |-> <<<<"new_fail", NULL>>>>]
    ELSE LET p == i.ptr
             t == i.t
             buf == NewAddr(hp)
             hp1 == new_bytes(hp, buf, IF t = NullThunk THEN 0 ELSE thunk_size(t))
             op == IF rvalue THEN "move" ELSE "copy"
         IN  IF out = "throw"
             THEN [thrown |-> TRUE, me |-> EmptyFields(C), hp |-> delete_bytes(hp1, buf),
                   ev |-> <<<<"new", buf>>, <<"throw", buf>>, <<"delete", buf>>>>]
             ELSE [thrown |-> FALSE,
                   me |-> [ptr |-> buf, t |-> t,
                           vtable |-> [k \in 1..Len(Methods(C)) |-> get_method(S, i, Methods(C)[k])]],
                   hp |-> IF p = NULL THEN hp1
                          ELSE IF rvalue THEN thunk_move(hp1, t, buf, p) ELSE thunk_copy(hp1, t, buf, p),
                   ev |-> <<<<"new", buf>>, <<op, buf>>, <<"install", buf>>>>]

\* Mutant: construct shares the source's buffer instead of copying into a
\* buffer of its own.
construct_shallow(C, S, hp, i, rvalue, out) ==
    IF ~to_bool(i)
    THEN [thrown |-> FALSE, me |-> EmptyFields(C), hp |-> hp, ev |-> <<>>]
    ELSE IF out # "ok"
    THEN [thrown |-> TRUE, me |-> EmptyFields(C), hp |-> hp, ev |-> <<<<"new_fail", NULL>>>>]
    ELSE [thrown |-> FALSE,
          me |-> [ptr |-> i.ptr, t |-> i.t,
                  vtable |-> [k \in 1..Len(Methods(C)) |-> get_method(S, i, Methods(C)[k])]],
          hp |-> hp,
          ev |-> <<<<"install", i.ptr>>>>]

\* Mutant: construct builds the trampolines of its own contract for the
\* wrapped type instead of taking the source's.
construct_rederive(C, S, hp, i, rvalue, out) ==
    IF ~to_bool(i)
    THEN [thrown |-> FALSE, me |-> EmptyFields(C), hp |-> hp, ev |-> <<>>]
    ELSE IF out = "bad_alloc"
    THEN [thrown |-> TRUE, me |-> EmptyFields(C), hp |-> hp, ev |-> <<<<"new_fail", NULL>>>>]
    ELSE LET p == i.ptr
             t == i.t
             buf == NewAddr(hp)
             hp1 == new_bytes(hp, buf, thunk_size(t))
             op == IF rvalue THEN "move" ELSE "copy"
             opthrow == IF rvalue THEN "move_throw" ELSE "copy_throw"
         IN  IF out = "throw"
             THEN [thrown |-> TRUE, me |-> EmptyFields(C), hp |-> delete_bytes(hp1, buf),
                   ev |-> <<<<"new", buf>>, <<opthrow, buf>>, <<"delete", buf>>>>]
             ELSE [thrown |-> FALSE,
                   me |-> [ptr |-> buf, t |-> t,
                           vtable |-> [k \in 1..Len(Methods(C)) |-> erasure_fn(C, Methods(C)[k], hp[p].T)]],
                   hp |-> IF rvalue THEN thunk_move(hp1, t, buf, p) ELSE thunk_copy(hp1, t, buf, p),
                   ev |-> <<<<"new", buf>>, <<op, buf>>, <<"install", buf>>>>]

\* Mutant: construct sets _t to the thunk of void* whatever the source's.
construct_void_thunk(C, S, hp, i, rvalue, out) ==
    IF ~to_bool(i)
    THEN [thrown |-> FALSE, me |-> EmptyFields(C), hp |-> hp, ev |-> <<>>]
    ELSE IF out = "bad_alloc"
    THEN [thrown |-> TRUE, me |-> EmptyFields(C), hp |-> hp, ev |-> <<<<"new_fail", NULL>>>>]
    ELSE LET p == i.ptr
             t == i.t
             buf == NewAddr(hp)
             hp1 == new_bytes(hp, buf, thunk_size(t))
             op == IF rvalue THEN "move" ELSE "copy"
             opthrow == IF rvalue THEN "move_throw" ELSE "copy_throw"
         IN  IF out = "throw"
             THEN [thrown |-> TRUE, me |-> EmptyFields(C), hp |-> delete_bytes(hp1, buf),
                   ev |-> <<<<"new", buf>>, <<opthrow, buf>>, <<"delete", buf>>>>]
             ELSE [thrown |-> FALSE,
                   me |-> [ptr |-> buf, t |-> get_thunk("void*"),
                           vtable |-> [k \in 1..Len(Methods(C)) |-> get_method(S, i, Methods(C)[k])]],
                   hp |-> IF rvalue THEN thunk_move(hp1, t, buf, p) ELSE thunk_copy(hp1, t, buf, p),
                   ev |-> <<<<"new", buf>>, <<op, buf>>, <<"install", buf>>>>]

\* construct(I&& i) of contract C from the members i of a handle of
\* contract S; rvalue is true for a non-const rvalue argument.
construct(C, S, hp, i, rvalue, out) ==
    IF ~to_bool(i)
    THEN [thrown |-> FALSE, me |-> EmptyFields(C), hp |-> hp, ev |-> <<>>]
    ELSE IF out = "bad_alloc"
    THEN [thrown |-> TRUE, me |-> EmptyFields(C), hp |-> hp, ev |-> <<<<"new_fail", NULL>>>>]
    ELSE LET p == i.ptr
             t == i.t
             buf == NewAddr(hp)
             hp1 == new_bytes(hp, buf, thunk_size(t))
             op == IF rvalue THEN "move" ELSE "copy"
             opthrow == IF rvalue THEN "move_throw" ELSE "copy_throw"
         IN  IF out = "throw"
             THEN [thrown |-> TRUE, me |-> EmptyFields(C), hp |-> delete_bytes(hp1, buf),
                   ev |-> <<<<"new", buf>>, <<opthrow, buf>>, <<"delete", buf>>>>]
             ELSE [thrown |-> FALSE,
                   me |-> [ptr |-> buf, t |-> t,
                           vtable |-> [k \in 1..Len(Methods(C)) |-> get_method(S, i, Methods(C)[k])]],
                   hp |-> IF rvalue THEN thunk_move(hp1, t, buf, p) ELSE thunk_copy(hp1, t, buf, p),
                   ev |-> <<<<"new", buf>>, <<op, buf>>, <<"install", buf>>>>]

\* Mutant: the destructor of a handle that stores a pointer destroys the
\* object pointed to.
destructor_pointee(hp, i) ==
    [hp |-> delete_bytes(IF i.ptr # NULL THEN thunk_destroy(hp, i.ptr) ELSE hp, i.ptr),
     ev |-> IF i.ptr = NULL THEN <<>>
            ELSE IF is_pointer_thunk(i.t)
                 THEN <<<<"destroy", hp[i.ptr].val>>, <<"delete", i.ptr>>>>
                 ELSE <<<<"destroy", i.ptr>>, <<"delete", i.ptr>>>>]

\* Mutant: the destructor frees the buffer and does not destroy the
\* payload in it.
destructor_delete_only(hp, i) ==
    [hp |-> delete_bytes(hp, i.ptr),
     ev |-> IF i.ptr # NULL THEN <<<<"delete", i.ptr>>>> ELSE <<>>]

\* Mutant: the destructor destroys the payload and keeps the buffer.
destructor_leak(hp, i) ==
    [hp |-> IF i.ptr # NULL THEN thunk_destroy(hp, i.ptr) ELSE hp,
     ev |-> IF i.ptr # NULL THEN <<<<"destroy", i.ptr>>>> ELSE <<>>]

\* ~interface(): the heap and the events of destroying members i.
destructor(hp, i) ==
    [hp |-> delete_bytes(IF i.ptr # NULL THEN thunk_destroy(hp, i.ptr) ELSE hp, i.ptr),
     ev |-> IF i.ptr # NULL THEN <<<<"destroy", i.ptr>>, <<"delete", i.ptr>>>> ELSE <<>>]

\* Mutant: target returns the data pointer without comparing thunks.
target_unchecked(i, T) == i.ptr

\* target<T>(i)
target(i, T) == IF i.t = get_thunk(T) THEN i.ptr ELSE NULL

\* Mutant: operator== compares what the two buffers hold whatever the thunks.
equals_deep(hp, x, y) ==
    IF x.ptr = NULL THEN y.ptr = NULL
    ELSE y.ptr # NULL /\ hp[x.ptr].val = hp[y.ptr].val

\* Mutant: operator== is true for two handles with the same data pointer.
equals_same_buffer(hp, x, y) ==
    IF x.ptr = y.ptr THEN TRUE
    ELSE IF x.ptr = NULL THEN FALSE
    ELSE IF is_pointer_thunk(x.t) /\ is_pointer_thunk(y.t) THEN hp[x.ptr].val = hp[y.ptr].val
    ELSE FALSE

\* operator==: *(void**)_ptr is the pointer stored in the buffer.
equals(hp, x, y) ==
    IF x.ptr = NULL THEN y.ptr = NULL
    ELSE IF is_pointer_thunk(x.t) /\ is_pointer_thunk(y.t) THEN hp[x.ptr].val = hp[y.ptr].val
    ELSE FALSE

\* Mutant: operator!= compares the data pointers.
not_equals_ptr(hp, x, y) == x.ptr # y.ptr

\* operator!=
not_equals(hp, x, y) == ~equals(hp, x, y)

\* The trampoline fn called on data pointer p: METHOD##_i_factory<T>::call
\* runs as_object<T>(p).METHOD().  area() returns the area and changes
\* nothing; grow() adds one to the side (modulo the value range) and
\* returns the new side.  The result is the value returned and the heap and
\* external objects afterwards.
method_result(m, T, v) ==
    IF m = "area" THEN (IF T \in {"Square", "Square*"} THEN v * v ELSE 3 * v * v)
    ELSE (v + 1) % (MaxVal + 1)

method_state(m, v) == IF m = "area" THEN v ELSE (v + 1) % (MaxVal + 1)

\* Mutant: as_object does not dereference a stored pointer.
as_object_no_deref(hp, T, p) == p

\* as_object<T>(p): the address of the object the method runs on; a stored
\* pointer is dereferenced once more.
as_object(hp, T, p) == IF is_pointer(T) THEN hp[p].val ELSE p

invoke(hp, ex, fn, p) ==
    LET o == as_object(hp, fn.T, p)
        v == IF o \in Ext THEN ex[o] ELSE hp[o].val
    IN  [ret |-> method_result(fn.m, fn.T, v),
         hp |-> IF o \in Ext THEN hp ELSE [hp EXCEPT ![o].val = method_state(fn.m, v)],
         ex |-> IF o \in Ext THEN [ex EXCEPT ![o] = method_state(fn.m, v)] ELSE ex]

\* METHOD(args...) of a handle of contract C with members i.
dispatch(C, hp, ex, i, m) == invoke(hp, ex, get_method(C, i, m), i.ptr)

\* Mutant: copy assignment destroys the old payload, frees its buffer and
\* only then swaps tmp's members in.
copy_assign_destroy_first(C, hp, self, other, out) ==
    LET r == construct(C, C, hp, other, FALSE, out)
        s == swap(self, r.me)
        d == destructor(r.hp, s[2])
    IN  IF r.thrown
        THEN [thrown |-> TRUE, self |-> self, hp |-> r.hp, ev |-> r.ev, me |-> r.me]
        ELSE [thrown |-> FALSE, self |-> s[1], hp |-> d.hp,
              ev |-> r.ev \o d.ev \o <<<<"swap", s[1].ptr>>>>, me |-> r.me]

\* Mutant: copy assignment destroys its own payload first and then copies
\* in place of it.
copy_assign_in_place(C, hp, self, other, out) ==
    LET d == destructor(hp, self)
        r == construct(C, C, d.hp, other, FALSE, out)
    IN  [thrown |-> r.thrown, self |-> r.me, hp |-> r.hp, ev |-> d.ev \o r.ev, me |-> r.me]

\* operator=(const interface& other) of contract C on members self:
\* auto tmp = other; swap(*this, tmp); and tmp is destroyed on return.
\* me is tmp when its constructor ends.
copy_assign(C, hp, self, other, out) ==
    LET r == construct(C, C, hp, other, FALSE, out)
        s == swap(self, r.me)
        d == destructor(r.hp, s[2])
    IN  IF r.thrown
        THEN [thrown |-> TRUE, self |-> self, hp |-> r.hp, ev |-> r.ev, me |-> r.me]
        ELSE [thrown |-> FALSE, self |-> s[1], hp |-> d.hp,
              ev |-> r.ev \o <<<<"swap", s[1].ptr>>>> \o d.ev, me |-> r.me]

\* Mutant: move assignment destroys its own payload, takes the members of
\* other and nulls other's.
move_assign_destroy_first(C, hp, self, other, same) ==
    LET d == destructor(hp, self)
    IN  [self |-> IF same THEN EmptyFields(C) ELSE other, other |-> EmptyFields(C), hp |-> d.hp,
         ev |-> d.ev \o <<<<"swap", other.ptr>>>>]

\* Mutant: move assignment builds tmp by moving the payload into a new
\* buffer, as a conversion from an rvalue does.
move_assign_by_construct(C, hp, self, other, same) ==
    LET r == construct(C, C, hp, other, TRUE, "ok")
        s == swap(self, r.me)
        d == destructor(r.hp, s[2])
    IN  [self |-> s[1], other |-> IF same THEN s[1] ELSE other, hp |-> d.hp,
         ev |-> r.ev \o <<<<"swap", s[1].ptr>>>> \o d.ev]

\* operator=(interface&& other) noexcept of contract C on members self:
\* auto tmp = std::move(other); swap(*this, tmp); and tmp is destroyed on
\* return.  same is true when other is *this.
move_assign(C, hp, self, other, same) ==
    LET m == swap(EmptyFields(C), other)
        self1 == IF same THEN m[2] ELSE self
        s == swap(self1, m[1])
        d == destructor(hp, s[2])
    IN  [self |-> s[1], other |-> IF same THEN s[1] ELSE m[2], hp |-> d.hp,
         ev |-> <<<<"swap", m[1].ptr>>, <<"swap", s[1].ptr>>>> \o d.ev]

----------------------------------------------------------------------------
(* The state machine *)

\* What the last operation was, how it ended ("ok", or the exception that
\* left it), and the value it returned (0 when it returns none).
Op(op, out, ret) == [op |-> op, out |-> out, ret |-> ret]

HasFree(hp) == \E p \in Addr : hp[p].st = "free"

\* The ways an operation that copies members i can end: new can throw
\* std::bad_alloc, the payload's constructor can throw (a pointer's cannot).
Outcomes(hp, i) ==
    IF ~to_bool(i) THEN {"ok"}
    ELSE {"bad_alloc"} \cup (IF ~HasFree(hp) THEN {}
                             ELSE IF is_pointer_thunk(i.t) THEN {"ok"} ELSE {"ok", "throw"})

ValueOutcomes(hp, U) ==
    {"bad_alloc"} \cup (IF ~HasFree(hp) THEN {}
                        ELSE IF is_pointer(U) THEN {"ok"} ELSE {"ok", "throw"})

\* The threads of the program that run an assignment to one handle step by
\* step, and a thread that has not begun one: pc is where it is, tmp the
\* local tmp of operator=, c the local of std::swap, ub the undefined
\* behaviour it ran into, raced whether it took a step while another thread
\* was inside its assignment.
Threads == {"t1", "t2"}

IdleThread ==
    [pc |-> [at |-> "start", k |-> 0], tmp |-> EmptyFields("Narrow"),
     c |-> EmptyFields("Narrow"), ub |-> "none", raced |-> FALSE]

Init ==
    /\ handle = [h \in H |-> Dead]
    /\ heap = [p \in Addr |-> FreeCell]
    /\ ext \in [Ext -> Vals]
    /\ last = Op("init", "ok", 0)
    /\ thr = [t \in Threads |-> IdleThread]
    /\ thunks = [t \in Thunks |-> thunk_storage(t)]

\* interface() = default
DefaultCtor(h, C) ==
    /\ ~handle[h].live
    /\ handle' = [handle EXCEPT ![h] = Live(C, EmptyFields(C))]
    /\ last' = Op("default_ctor", "ok", 0)
    /\ UNCHANGED <<heap, ext, thr, thunks>>

\* Mutant: the value constructor has no static_assert on U.
value_ctor_compiles_any(U) == TRUE

\* The static_assert of the value constructor: U is copy constructible
\* (all types of the model have the default alignment).
value_ctor_compiles(U) == is_copy_constructible(U)

\* interface(T&& t) for a value v of type U
ValueCtor(h, C, U, v, out) ==
    /\ ~handle[h].live
    /\ value_ctor_compiles(U)
    /\ out \in ValueOutcomes(heap, U)
    /\ LET r == value_ctor(C, heap, U, v, out)
       IN  /\ handle' = IF r.thrown THEN handle ELSE [handle EXCEPT ![h] = Live(C, r.me)]
           /\ heap' = r.hp
    /\ last' = Op("value_ctor", out, 0)
    /\ UNCHANGED <<ext, thr, thunks>>

\* interface(const interface& other)
CopyCtor(h, g, out) ==
    /\ ~handle[h].live
    /\ handle[g].live
    /\ out \in Outcomes(heap, handle[g].f)
    /\ LET C == handle[g].c
           r == construct(C, C, heap, handle[g].f, FALSE, out)
       IN  /\ handle' = IF r.thrown THEN handle ELSE [handle EXCEPT ![h] = Live(C, r.me)]
           /\ heap' = r.hp
    /\ last' = Op("copy_ctor", out, 0)
    /\ UNCHANGED <<ext, thr, thunks>>

\* interface(interface&& other) noexcept { swap(*this, other); }
MoveCtor(h, g) ==
    /\ ~handle[h].live
    /\ handle[g].live
    /\ LET C == handle[g].c
           s == swap(EmptyFields(C), handle[g].f)
       IN  handle' = [handle EXCEPT ![h] = Live(C, s[1]), ![g] = Live(C, s[2])]
    /\ last' = Op("move_ctor", "ok", 0)
    /\ UNCHANGED <<heap, ext, thr, thunks>>

\* interface(I&& i) of contract C for an interface of another contract: an
\* lvalue or const argument (rvalue = FALSE) or a non-const rvalue
\* (rvalue = TRUE).
ConvertCtor(h, C, g, rvalue, out) ==
    /\ ~handle[h].live
    /\ handle[g].live
    /\ C # handle[g].c
    /\ Compatible(C, handle[g].c)
    /\ out \in Outcomes(heap, handle[g].f)
    /\ LET r == construct(C, handle[g].c, heap, handle[g].f, rvalue, out)
       IN  /\ handle' = IF r.thrown THEN handle ELSE [handle EXCEPT ![h] = Live(C, r.me)]
           /\ heap' = r.hp
    /\ last' = Op(IF rvalue THEN "convert_move" ELSE "convert_copy", out, 0)
    /\ UNCHANGED <<ext, thr, thunks>>

\* ~interface()
Destroy(h) ==
    /\ handle[h].live
    /\ heap' = destructor(heap, handle[h].f).hp
    /\ handle' = [handle EXCEPT ![h] = Dead]
    /\ last' = Op("destroy", "ok", 0)
    /\ UNCHANGED <<ext, thr, thunks>>

\* x = y
CopyAssign(x, y, out) ==
    /\ handle[x].live
    /\ handle[y].live
    /\ handle[x].c = handle[y].c
    /\ out \in Outcomes(heap, handle[y].f)
    /\ LET r == copy_assign(handle[x].c, heap, handle[x].f, handle[y].f, out)
       IN  /\ handle' = [handle EXCEPT ![x].f = r.self]
           /\ heap' = r.hp
    /\ last' = Op("copy_assign", out, 0)
    /\ UNCHANGED <<ext, thr, thunks>>

\* x = std::move(y)
MoveAssign(x, y) ==
    /\ handle[x].live
    /\ handle[y].live
    /\ handle[x].c = handle[y].c
    /\ LET r == move_assign(handle[x].c, heap, handle[x].f, handle[y].f, x = y)
       IN  /\ handle' = [[handle EXCEPT ![y].f = r.other] EXCEPT ![x].f = r.self]
           /\ heap' = r.hp
    /\ last' = Op("move_assign", "ok", 0)
    /\ UNCHANGED <<ext, thr, thunks>>

\* swap(x, y)
Swap(x, y) ==
    /\ handle[x].live
    /\ handle[y].live
    /\ handle[x].c = handle[y].c
    /\ LET s == swap(handle[x].f, handle[y].f)
       IN  handle' = [[handle EXCEPT ![x].f = s[1]] EXCEPT ![y].f = s[2]]
    /\ last' = Op("swap", "ok", 0)
    /\ UNCHANGED <<heap, ext, thr, thunks>>

\* h.METHOD(): calling a method of an empty handle is undefined and is not
\* modelled.
Call(h, m) ==
    /\ handle[h].live
    /\ to_bool(handle[h].f)
    /\ \E j \in 1..Len(Methods(handle[h].c)) : Methods(handle[h].c)[j] = m
    /\ LET c == dispatch(handle[h].c, heap, ext, handle[h].f, m)
       IN  /\ heap' = c.hp
           /\ ext' = c.ex
           /\ last' = Op("call", "ok", c.ret)
    /\ UNCHANGED <<handle, thr, thunks>>

\* target<T>(h)
Target(h, T) ==
    /\ handle[h].live
    /\ last' = Op("target", "ok", target(handle[h].f, T))
    /\ UNCHANGED <<handle, heap, ext, thr, thunks>>

\* x == y (ret 1 for true, 0 for false)
Equal(x, y) ==
    /\ handle[x].live
    /\ handle[y].live
    /\ handle[x].c = handle[y].c
    /\ last' = Op("equal", "ok", IF equals(heap, handle[x].f, handle[y].f) THEN 1 ELSE 0)
    /\ UNCHANGED <<handle, heap, ext, thr, thunks>>

\* x != y (ret 1 for true, 0 for false)
NotEqual(x, y) ==
    /\ handle[x].live
    /\ handle[y].live
    /\ handle[x].c = handle[y].c
    /\ last' = Op("not_equal", "ok", IF not_equals(heap, handle[x].f, handle[y].f) THEN 1 ELSE 0)
    /\ UNCHANGED <<handle, heap, ext, thr, thunks>>

OutcomeNames == {"ok", "bad_alloc", "throw"}

Next ==
    \/ \E h \in H, C \in Contracts : DefaultCtor(h, C)
    \/ \E h \in H, C \in Contracts, U \in Types, out \in OutcomeNames : \E v \in InitVals(U) : ValueCtor(h, C, U, v, out)
    \/ \E h, g \in H, out \in OutcomeNames : CopyCtor(h, g, out)
    \/ \E h, g \in H : MoveCtor(h, g)
    \/ \E h, g \in H, C \in Contracts, rvalue \in BOOLEAN, out \in OutcomeNames : ConvertCtor(h, C, g, rvalue, out)
    \/ \E h \in H : Destroy(h)
    \/ \E x, y \in H, out \in OutcomeNames : CopyAssign(x, y, out)
    \/ \E x, y \in H : MoveAssign(x, y)
    \/ \E x, y \in H : Swap(x, y)
    \/ \E h \in H, m \in {"area", "grow"} : Call(h, m)

\* The operations that change a handle, the heap or an external object.
Spec == Init /\ [][Next]_vars

NextObs ==
    \/ Next
    \/ \E h \in H, T \in Types : Target(h, T)
    \/ \E x, y \in H : Equal(x, y)
    \/ \E x, y \in H : NotEqual(x, y)

\* The same with the operations that only read: target, == and !=.
SpecObs == Init /\ [][NextObs]_vars

----------------------------------------------------------------------------
(* Two threads that assign to one handle, member access by member access *)

\* The handle both threads assign to and the handle they assign from.
Shared == "h1"

Source == "h2"

Pc(at, k) == [at |-> at, k |-> k]

\* The members swap exchanges, in the order it does.
Members == <<"ptr", "t", "vtable">>

\* Thread t is between the first and the last step of its assignment.
Inside(t) == thr[t].pc.at \notin {"start", "done"}

\* Thread t steps: it has raced when another thread is inside its own.
Raced(t) == thr[t].raced \/ \E u \in Threads \ {t} : Inside(u)

\* What a handle can be built from: nothing (the default constructor) or
\* a value v of a type U.
Wrappings ==
    {<<"none", 0>>}
    \cup UNION {{<<U, v>> : v \in InitVals(U)} : U \in {T \in Types : value_ctor_compiles(T)}}

\* The members and the heap after building a handle of contract C from
\* wrapping w.
Built(C, hp, w) ==
    IF w[1] = "none" THEN [me |-> EmptyFields(C), hp |-> hp]
    ELSE [me |-> value_ctor(C, hp, w[1], w[2], "ok").me,
          hp |-> value_ctor(C, hp, w[1], w[2], "ok").hp]

\* Before the threads start the program has built Source and then Shared,
\* two handles of one contract.
RaceInit ==
    /\ \E C \in Contracts, a, b \in Wrappings :
          LET src == Built(C, [p \in Addr |-> FreeCell], a)
              dst == Built(C, src.hp, b)
          IN  /\ handle = [h \in H |-> IF h = Shared THEN Live(C, dst.me) ELSE Live(C, src.me)]
              /\ heap = dst.hp
              /\ last = Op(IF b[1] = "none" THEN "default_ctor" ELSE "value_ctor", "ok", 0)
    /\ ext \in [Ext -> Vals]
    /\ thr = [t \in Threads |-> IdleThread]
    /\ thunks = [t \in Thunks |-> thunk_storage(t)]

\* operator=: auto tmp = other; new and the payload's copy can throw, and
\* then the assignment is over.
RaceConstruct(t, out) ==
    /\ thr[t].pc.at = "start"
    /\ out \in Outcomes(heap, handle[Source].f)
    /\ LET C == handle[Shared].c
           r == construct(C, C, heap, handle[Source].f, FALSE, out)
       IN  /\ heap' = r.hp
           /\ thr' = [thr EXCEPT ![t].pc = IF r.thrown THEN Pc("done", 0) ELSE Pc("load", 1),
                                 ![t].tmp = r.me,
                                 ![t].raced = Raced(t)]
    /\ UNCHANGED <<handle, ext, last, thunks>>

\* std::swap(x._m, y._m) for x = *this and y = tmp: T c = std::move(x._m)
RaceLoad(t) ==
    /\ thr[t].pc.at = "load"
    /\ LET m == Members[thr[t].pc.k]
       IN  thr' = [thr EXCEPT ![t].c[m] = handle[Shared].f[m],
                             ![t].pc.at = "storex",
                             ![t].raced = Raced(t)]
    /\ UNCHANGED <<handle, heap, ext, last, thunks>>

\* x._m = std::move(y._m)
RaceStoreX(t) ==
    /\ thr[t].pc.at = "storex"
    /\ LET m == Members[thr[t].pc.k]
       IN  handle' = [handle EXCEPT ![Shared].f[m] = thr[t].tmp[m]]
    /\ thr' = [thr EXCEPT ![t].pc.at = "storey", ![t].raced = Raced(t)]
    /\ UNCHANGED <<heap, ext, last, thunks>>

\* y._m = std::move(c); after the last member, swap and operator= return.
RaceStoreY(t) ==
    /\ thr[t].pc.at = "storey"
    /\ LET k == thr[t].pc.k
           m == Members[k]
       IN  thr' = [thr EXCEPT ![t].tmp[m] = thr[t].c[m],
                             ![t].pc = IF k < Len(Members) THEN Pc("load", k + 1) ELSE Pc("dtor", 0),
                             ![t].raced = Raced(t)]
    /\ UNCHANGED <<handle, heap, ext, last, thunks>>

\* What destroying members i does that is undefined: destroying and
\* freeing a buffer that holds no object (it was freed already), or calling
\* destroy through a null _t.
Undefined(hp, i) ==
    IF i.ptr = NULL THEN "none"
    ELSE IF hp[i.ptr].st # "obj" THEN "double_free"
    ELSE IF i.t = NullThunk THEN "null_thunk"
    ELSE "none"

\* tmp's destructor when operator= returns.  After undefined behaviour the
\* thread is taken no further.
RaceDestroyTmp(t) ==
    /\ thr[t].pc.at = "dtor"
    /\ LET i == thr[t].tmp
       IN  /\ heap' = IF Undefined(heap, i) = "none" THEN destructor(heap, i).hp ELSE heap
           /\ thr' = [thr EXCEPT ![t].ub = Undefined(heap, i),
                                 ![t].pc = Pc("done", 0),
                                 ![t].raced = Raced(t)]
    /\ UNCHANGED <<handle, ext, last, thunks>>

RaceNext ==
    \/ \E t \in Threads, out \in OutcomeNames : RaceConstruct(t, out)
    \/ \E t \in Threads : RaceLoad(t)
    \/ \E t \in Threads : RaceStoreX(t)
    \/ \E t \in Threads : RaceStoreY(t)
    \/ \E t \in Threads : RaceDestroyTmp(t)

\* Each thread runs Shared = Source once, with no synchronisation.
SpecRace == RaceInit /\ [][RaceNext]_vars

----------------------------------------------------------------------------
(* Vocabulary of the properties *)

F(h) == handle[h].f

IsLive(h) == handle[h].live

NonEmpty(h) == IsLive(h) /\ F(h).ptr # NULL

IsEmpty(h) == IsLive(h) /\ F(h).ptr = NULL

\* The handle with members i holds, in a live object of its own buffer, a
\* payload of type U and value v, and target<U> returns that buffer.
Holds(i, hp, U, v) ==
    /\ target(i, U) # NULL
    /\ target(i, U) = i.ptr
    /\ hp[i.ptr].st = "obj"
    /\ hp[i.ptr].T = U
    /\ hp[i.ptr].val = v

\* The payload in i's buffer is a pointer (reference mode) or a value.
RefMode(i, hp) == i.ptr # NULL /\ is_pointer(hp[i.ptr].T)

ValueMode(i, hp) == i.ptr # NULL /\ hp[i.ptr].T \in ValueTypes

\* The value of the object the methods of i run on.
Payload(i, hp, ex) == IF RefMode(i, hp) THEN ex[hp[i.ptr].val] ELSE hp[i.ptr].val

----------------------------------------------------------------------------
(* C1: round-trip identity *)

\* Wrapping a value v of a non-pointer type U leaves a handle that Holds
\* (U, v); a copy, a same-contract move, an assignment or a swap of a
\* handle that Holds (U, v) leaves the receiving handle Holding (U, v).
C1_Step ==
    /\ last'.op = "value_ctor" /\ last'.out = "ok" =>
          \A h \in H, C \in Contracts, U \in ValueTypes, v \in Vals :
              ValueCtor(h, C, U, v, "ok") => Holds(handle'[h].f, heap', U, v)
    /\ last'.op \in {"copy_ctor", "move_ctor", "copy_assign", "move_assign", "swap", "convert_copy"}
       /\ last'.out = "ok" =>
          \A g \in H, U \in ValueTypes, v \in Vals :
              IsLive(g) /\ Holds(F(g), heap, U, v) =>
                  \A h \in H :
                      \/ last'.op = "copy_ctor" /\ CopyCtor(h, g, "ok")
                      \/ last'.op = "move_ctor" /\ MoveCtor(h, g)
                      \/ last'.op = "copy_assign" /\ CopyAssign(h, g, "ok")
                      \/ last'.op = "move_assign" /\ MoveAssign(h, g)
                      \/ last'.op = "swap" /\ (Swap(h, g) \/ Swap(g, h))
                      \/ last'.op = "convert_copy" /\ \E C \in Contracts : ConvertCtor(h, C, g, FALSE, "ok")
                      => Holds(handle'[h].f, heap', U, v)

\* C1: wrapping v and calling target<U> gives a pointer into the handle's
\* own buffer whose payload equals v, also after copies, moves, assignments
\* and swaps.
C1_RoundTrip == [][C1_Step]_vars

\* A Circle of value MaxVal has just been wrapped, and target<Circle> of
\* the new handle is its buffer.
C1_Witness ==
    /\ last.op = "value_ctor"
    /\ last.out = "ok"
    /\ \E h \in H : NonEmpty(h) /\ Holds(F(h), heap, "Circle", MaxVal)

----------------------------------------------------------------------------
(* C2: value independence *)

\* x is a copy of y: in value mode the two have buffers of their own with
\* equal payloads, in reference mode the two buffers hold the same pointer.
CopyOf(x, y, hp) ==
    /\ x.ptr # NULL
    /\ y.ptr # NULL
    /\ x.ptr # y.ptr
    /\ hp[x.ptr].st = "obj"
    /\ get_thunk(hp[x.ptr].T) = get_thunk(hp[y.ptr].T)
    /\ hp[x.ptr].val = hp[y.ptr].val

C2_Step ==
    /\ last'.op \in {"copy_ctor", "copy_assign"} /\ last'.out = "ok" =>
          \A h, g \in H :
              /\ h # g
              /\ NonEmpty(g)
              /\ \/ last'.op = "copy_ctor" /\ CopyCtor(h, g, "ok")
                 \/ last'.op = "copy_assign" /\ CopyAssign(h, g, "ok")
              => CopyOf(handle'[h].f, handle'[g].f, heap')
    /\ last'.op = "call" =>
          \A h, k \in H :
              /\ h # k
              /\ NonEmpty(h)
              /\ NonEmpty(k)
              /\ \E m \in {"area", "grow"} : Call(h, m)
              => /\ ValueMode(F(h), heap) \/ ValueMode(F(k), heap)
                    => Payload(handle'[k].f, heap', ext') = Payload(F(k), heap, ext)
                 /\ RefMode(F(h), heap) /\ RefMode(F(k), heap)
                    /\ heap[F(h).ptr].val = heap[F(k).ptr].val
                    => Payload(handle'[k].f, heap', ext') = Payload(handle'[h].f, heap', ext')

\* C2: a copy (copy construction or copy assignment) of a value-mode handle
\* owns a buffer of its own with an equal payload, and a method run through
\* one handle leaves the payload of the other unchanged; copies of a
\* reference-mode handle store the same pointer, and what a method does
\* through one is seen through the other.
C2_ValueIndependence == [][C2_Step]_vars

\* grow() has just run through one of two value-mode handles that hold
\* the same type, and their payloads now differ.
C2_Witness ==
    /\ last.op = "call"
    /\ \E h, k \in H :
          /\ h # k
          /\ NonEmpty(h)
          /\ NonEmpty(k)
          /\ ValueMode(F(h), heap)
          /\ heap[F(h).ptr].T = heap[F(k).ptr].T
          /\ F(h).vtable = F(k).vtable
          /\ heap[F(h).ptr].val # heap[F(k).ptr].val

----------------------------------------------------------------------------
(* C3: equality *)

\* C3: two handles of one contract are == exactly when both are empty, or
\* both are in reference mode and store the same pointer.
C3_Equality ==
    \A x, y \in H :
        IsLive(x) /\ IsLive(y) /\ handle[x].c = handle[y].c =>
            (equals(heap, F(x), F(y)) <=>
                \/ F(x).ptr = NULL /\ F(y).ptr = NULL
                \/ /\ RefMode(F(x), heap)
                   /\ RefMode(F(y), heap)
                   /\ heap[F(x).ptr].val = heap[F(y).ptr].val)

\* Two value-mode handles with equal payloads have just compared unequal.
C3_Witness ==
    /\ last.op = "equal"
    /\ last.ret = 0
    /\ \E x, y \in H :
          /\ x # y
          /\ NonEmpty(x)
          /\ NonEmpty(y)
          /\ handle[x].c = handle[y].c
          /\ ValueMode(F(x), heap)
          /\ heap[F(x).ptr].T = heap[F(y).ptr].T
          /\ heap[F(x).ptr].val = heap[F(y).ptr].val

----------------------------------------------------------------------------
(* C4: a same-contract move empties the source *)

\* Every method of contract C returns and does through members j, in heap
\* hq, what it returns and does through members i in heap hp.
SameCalls(C, i, hp, ex, j, hq, eq) ==
    \A k \in 1..Len(Methods(C)) :
        LET a == dispatch(C, hp, ex, i, Methods(C)[k])
            b == dispatch(C, hq, eq, j, Methods(C)[k])
        IN  /\ b.ret = a.ret
            /\ b.hp[j.ptr] = a.hp[i.ptr]
            /\ b.ex = a.ex

C4_Step ==
    last'.op \in {"move_ctor", "move_assign"} =>
        \A h, g \in H :
            /\ h # g
            /\ IsLive(g)
            /\ \/ last'.op = "move_ctor" /\ MoveCtor(h, g)
               \/ last'.op = "move_assign" /\ MoveAssign(h, g)
            => /\ IsLive(g)'
               /\ handle'[g].f = EmptyFields(handle[g].c)
               /\ ~to_bool(handle'[g].f)
               /\ handle'[h].f = F(g)
               /\ handle'[h].c = handle[g].c
               /\ F(g).ptr # NULL =>
                     /\ heap'[F(g).ptr] = heap[F(g).ptr]
                     /\ SameCalls(handle[g].c, F(g), heap, ext, handle'[h].f, heap', ext')

\* C4: after move construction or move assignment from a distinct handle g
\* of the same contract, g is empty and the receiver has g's data pointer,
\* thunk and table, the payload is untouched, and every method gives the
\* result it would have given through g.
C4_MoveEmptiesSource == [][C4_Step]_vars

\* A move construction has just taken a payload: the receiver holds it and
\* the source is empty.
C4_Witness ==
    /\ last.op = "move_ctor"
    /\ \E h, g \in H : NonEmpty(h) /\ IsEmpty(g)

----------------------------------------------------------------------------
(* C5: moving across contracts *)

C5_OriginalStep ==
    last'.op = "convert_move" /\ last'.out = "ok" =>
        \A h, g \in H, C \in Contracts :
            IsLive(g) /\ ConvertCtor(h, C, g, TRUE, "ok") => handle'[g].f.ptr = NULL

\* C5 as claimed: constructing from a non-const rvalue handle of another
\* compatible contract leaves the source handle empty.
C5_SourceEmptied == [][C5_OriginalStep]_vars

C5_Step ==
    last'.op = "convert_move" /\ last'.out = "ok" =>
        \A h, g \in H, C \in Contracts :
            IsLive(g) /\ ConvertCtor(h, C, g, TRUE, "ok") =>
                /\ handle'[g] = handle[g]
                /\ F(g).ptr = NULL => handle'[h].f = EmptyFields(C)
                /\ F(g).ptr # NULL =>
                      LET old == heap[F(g).ptr]
                          new == handle'[h].f
                      IN  /\ new.ptr # NULL
                          /\ new.ptr # F(g).ptr
                          /\ new.t = F(g).t
                          /\ heap[new.ptr].st = "free"
                          /\ heap'[new.ptr].st = "obj"
                          /\ heap'[new.ptr].val = old.val
                          /\ heap'[F(g).ptr].st = "obj"
                          /\ heap'[F(g).ptr].val = MovedFrom(F(g).t, old.val)

\* C5 as amended: constructing from a non-const rvalue handle of another
\* compatible contract moves the payload, with the thunk's move, into a
\* new buffer of the new handle; the source handle is not emptied: it
\* keeps its data pointer, thunk and table, and its buffer holds the
\* moved-from payload.  An empty source gives an empty handle.
C5_MoveAcrossContracts == [][C5_Step]_vars

\* A Narrow handle has just been move-constructed from a Rich handle with
\* a Circle: it has the value and the source still owns the moved-from
\* Circle.
C5_Witness ==
    /\ last.op = "convert_move"
    /\ last.out = "ok"
    /\ \E h, g \in H :
          /\ NonEmpty(h)
          /\ NonEmpty(g)
          /\ handle[h].c = "Narrow"
          /\ handle[g].c = "Rich"
          /\ heap[F(g).ptr].T = "Circle"
          /\ heap[F(g).ptr].val = 0
          /\ heap[F(h).ptr].val = MaxVal

----------------------------------------------------------------------------
(* C6: emptiness propagation *)

\* The kinds of the heap and lifecycle calls of an event sequence.
Kinds(ev) == {ev[k][1] : k \in 1..Len(ev)}

Allocations == {"new", "new_fail"}

LifecycleCalls == {"ctor", "ctor_throw", "copy", "copy_throw", "move", "move_throw", "destroy"}

\* What every construction from an empty source g does.
C6_Construction ==
    /\ last'.op = "default_ctor" =>
          \A h \in H, C \in Contracts :
              DefaultCtor(h, C) =>
                  /\ handle'[h] = Live(C, EmptyFields(C))
                  /\ ~to_bool(handle'[h].f)
                  /\ heap' = heap
    /\ last'.op = "move_ctor" =>
          \A h, g \in H :
              IsEmpty(g) /\ MoveCtor(h, g) =>
                  /\ handle'[h] = Live(handle[g].c, EmptyFields(handle[g].c))
                  /\ ~to_bool(handle'[h].f)
                  /\ h # g => handle'[g] = handle[g]
                  /\ heap' = heap
    /\ last'.op \in {"copy_ctor", "convert_copy", "convert_move"} =>
          \A h, g \in H, out \in OutcomeNames :
              /\ IsEmpty(g)
              /\ \/ CopyCtor(h, g, out)
                 \/ \E C \in Contracts, rvalue \in BOOLEAN : ConvertCtor(h, C, g, rvalue, out)
              => /\ out = "ok"
                 /\ IsLive(h)'
                 /\ handle'[h].f = EmptyFields(handle'[h].c)
                 /\ ~to_bool(handle'[h].f)
                 /\ handle'[g] = handle[g]
                 /\ heap' = heap
                 /\ \A C \in Contracts, rvalue \in BOOLEAN :
                       construct(C, handle[g].c, heap, F(g), rvalue, out).ev = <<>>

\* The events of the assignment x = y that the step is, if it is one.
AssignEvents(x, y) ==
    {copy_assign(handle[x].c, heap, F(x), F(y), out).ev :
         out \in {o \in OutcomeNames : CopyAssign(x, y, o)}}
    \cup (IF MoveAssign(x, y)
          THEN {move_assign(handle[x].c, heap, F(x), F(y), x = y).ev}
          ELSE {})

C6_OriginalStep ==
    /\ C6_Construction
    /\ last'.op \in {"copy_assign", "move_assign"} =>
          \A x, y \in H :
              IsEmpty(y) /\ IsLive(x) =>
                  \A e \in AssignEvents(x, y) :
                      /\ handle'[x].f = EmptyFields(handle[x].c)
                      /\ heap' = heap
                      /\ Kinds(e) \cap (Allocations \cup LifecycleCalls) = {}

\* C6 as claimed: a default-constructed handle is empty, and constructing
\* or assigning from an empty handle gives an empty handle with no
\* allocation and no lifecycle call.
C6_NoLifecycleCall == [][C6_OriginalStep]_vars

C6_Step ==
    /\ C6_Construction
    /\ last'.op \in {"copy_assign", "move_assign"} =>
          \A x, y \in H :
              IsEmpty(y) /\ IsLive(x) =>
                  /\ \A out \in OutcomeNames : CopyAssign(x, y, out) => out = "ok"
                  /\ \A e \in AssignEvents(x, y) :
                        LET old == F(x).ptr
                        IN  /\ handle'[x].f = EmptyFields(handle[x].c)
                            /\ handle'[y].f = EmptyFields(handle[y].c)
                            /\ Kinds(e) \cap (Allocations \cup (LifecycleCalls \ {"destroy"})) = {}
                            /\ "destroy" \in Kinds(e) <=> old # NULL
                            /\ \A k \in 1..Len(e) :
                                  e[k][1] \in {"destroy", "delete"} => e[k][2] = old
                            /\ heap' = IF old = NULL THEN heap ELSE [heap EXCEPT ![old] = FreeCell]

\* C6 as amended: a default-constructed handle is empty; constructing from
\* an empty handle gives an empty handle with no allocation and no
\* lifecycle call; assigning from an empty handle gives an empty handle
\* with no allocation, no copy and no move, and destroys the payload the
\* assigned handle held, if it held one, and frees its buffer.
C6_EmptinessPropagation == [][C6_Step]_vars

\* An empty handle has just been copy-constructed from an empty handle.
C6_Witness ==
    /\ last.op = "copy_ctor"
    /\ \A h \in H : IsEmpty(h)

----------------------------------------------------------------------------
(* C7: the emptiness invariant *)

\* C7: in a handle, _ptr is null exactly when _t is null, and the handle
\* converts to true exactly when _ptr is not null.
C7_EmptinessInvariant ==
    \A h \in H :
        IsLive(h) =>
            /\ F(h).ptr = NULL <=> F(h).t = NullThunk
            /\ to_bool(F(h)) <=> F(h).ptr # NULL

\* A swap has just left one handle empty and the other not.
C7_Witness ==
    /\ last.op = "swap"
    /\ \E h, g \in H : IsEmpty(h) /\ NonEmpty(g)

----------------------------------------------------------------------------
(* C8: exclusive ownership *)

Owners(p) == {h \in H : IsLive(h) /\ F(h).ptr = p}

\* C8: every allocated buffer is the data of exactly one handle and holds
\* its payload, and no two handles have the same data pointer.
C8_ExclusiveOwnership ==
    /\ \A p \in Addr : heap[p].st # "free" => Cardinality(Owners(p)) = 1 /\ heap[p].st = "obj"
    /\ \A h \in H : NonEmpty(h) => F(h).ptr \in Addr /\ heap[F(h).ptr].st = "obj"
    /\ \A h, g \in H : h # g /\ NonEmpty(h) /\ NonEmpty(g) => F(h).ptr # F(g).ptr

\* A copy assignment has just replaced the buffer of one of two handles
\* that both own one.
C8_Witness ==
    /\ last.op = "copy_assign"
    /\ last.out = "ok"
    /\ \A h \in H : NonEmpty(h)
    /\ \E p \in Addr : heap[p].st = "free"

----------------------------------------------------------------------------
(* C9: strong exception safety of copy assignment *)

C9_Step ==
    last'.op = "copy_assign" =>
        \A x, y \in H, out \in OutcomeNames :
            IsLive(x) /\ IsLive(y) /\ CopyAssign(x, y, out) =>
                /\ out # "ok" => handle' = handle /\ heap' = heap /\ ext' = ext
                /\ out = "ok" /\ F(y).ptr # NULL =>
                      /\ handle'[x].f.ptr # NULL
                      /\ handle'[x].f.t = F(y).t
                      /\ handle'[x].f.vtable = F(y).vtable
                      /\ heap'[handle'[x].f.ptr].st = "obj"
                      /\ heap'[handle'[x].f.ptr].val = heap[F(y).ptr].val
                      /\ x # y => handle'[y] = handle[y] /\ heap'[F(y).ptr] = heap[F(y).ptr]
                      /\ x = y => handle'[x].f.ptr # F(x).ptr /\ heap'[F(x).ptr] = FreeCell
                      /\ \A p \in Addr :
                            p \notin {handle'[x].f.ptr, F(x).ptr} => heap'[p] = heap[p]
                      /\ F(x).ptr # NULL /\ F(x).ptr # handle'[x].f.ptr
                            => heap'[F(x).ptr] = FreeCell

\* C9: a copy assignment a = b that fails, in the allocation or in the
\* payload's copy, leaves every handle and the heap as they were; one that
\* succeeds leaves in a a copy of b's payload with b's thunk and table, b
\* unchanged, and a's old buffer freed.
C9_StrongExceptionSafety == [][C9_Step]_vars

\* The payload's copy has just thrown in an assignment between two
\* handles that both own a payload.
C9_Witness ==
    /\ last.op = "copy_assign"
    /\ last.out = "throw"
    /\ \A h \in H : NonEmpty(h)

----------------------------------------------------------------------------
(* C10: atomic construction *)

\* The members are all set and the buffer holds a payload.
FullySet(i, hp) ==
    /\ i.ptr # NULL
    /\ i.t # NullThunk
    /\ \A k \in DOMAIN i.vtable : i.vtable[k] # NullFn
    /\ hp[i.ptr].st = "obj"

\* What a constructor that ended with result r did, building handle h.
Atomic(r, h, nonempty) ==
    /\ r.thrown =>
          /\ r.me.ptr = NULL
          /\ r.me.t = NullThunk
          /\ handle' = handle
          /\ heap' = heap
    /\ ~r.thrown /\ nonempty => IsLive(h)' /\ handle'[h].f = r.me /\ FullySet(r.me, heap')

C10_Step ==
    /\ last'.op = "value_ctor" =>
          \A h \in H, C \in Contracts, U \in Types, out \in OutcomeNames :
              \A v \in InitVals(U) :
                  ValueCtor(h, C, U, v, out) =>
                      /\ value_ctor(C, heap, U, v, out).thrown <=> out # "ok"
                      /\ Atomic(value_ctor(C, heap, U, v, out), h, TRUE)
    /\ last'.op \in {"copy_ctor", "convert_copy", "convert_move"} =>
          \A h, g \in H, C \in Contracts, rvalue \in BOOLEAN, out \in OutcomeNames :
              /\ IsLive(g)
              /\ \/ C = handle[g].c /\ ~rvalue /\ CopyCtor(h, g, out)
                 \/ ConvertCtor(h, C, g, rvalue, out)
              => /\ construct(C, handle[g].c, heap, F(g), rvalue, out).thrown <=> out # "ok"
                 /\ Atomic(construct(C, handle[g].c, heap, F(g), rvalue, out), h, F(g).ptr # NULL)

\* C10: a construction from a value or from another handle whose
\* allocation or payload construction fails throws with _ptr and _t still
\* null and the buffer released, and no handle or buffer has changed; one
\* that succeeds leaves _ptr, _t and every entry of _vtable set.
C10_AtomicConstruction == [][C10_Step]_vars

\* The payload's constructor has just thrown in a construction from a
\* value: no handle and no buffer exists.
C10_Witness ==
    /\ last.op = "value_ctor"
    /\ last.out = "throw"
    /\ \A h \in H : ~IsLive(h)
    /\ \A p \in Addr : heap[p].st = "free"

----------------------------------------------------------------------------
(* C11: downcast *)

\* The type the object in i's buffer was constructed as by the value
\* constructor: a copy through the pointers' thunk is a void*.
Wrapped(i, hp) == hp[i.ptr].T

\* C11: target<T>(h) is h's data pointer when h's thunk is T's and null
\* otherwise: null for every T on an empty handle, null on a value-mode
\* handle wrapping a type other than T and its data pointer for the type
\* it wraps, and null for a non-pointer T on a reference-mode handle; a
\* call of target returns null or the data pointer of a handle.
C11_Downcast ==
    /\ \A h \in H, T \in Types :
          IsLive(h) =>
              /\ target(F(h), T) = (IF F(h).t = get_thunk(T) THEN F(h).ptr ELSE NULL)
              /\ IsEmpty(h) => target(F(h), T) = NULL
              /\ ValueMode(F(h), heap) =>
                    target(F(h), T) = (IF T = Wrapped(F(h), heap) THEN F(h).ptr ELSE NULL)
              /\ RefMode(F(h), heap) /\ ~is_pointer(T) => target(F(h), T) = NULL
    /\ last.op = "target" => last.ret \in {NULL} \cup {F(h).ptr : h \in {g \in H : IsLive(g)}}

\* target has just returned null on a handle that wraps a value.
C11_Witness ==
    /\ last.op = "target"
    /\ last.ret = NULL
    /\ \E h \in H : IsLive(h)
    /\ \A h \in H : IsLive(h) => ValueMode(F(h), heap)

----------------------------------------------------------------------------
(* C12: the pointers' thunk *)

\* The type of the external object the pointer stored by i points to.
Pointee(i, hp) == ExtType(hp[i.ptr].val)

\* C12: a handle is in reference mode exactly when its thunk is the one
\* all pointer types share, and then target<Q*> returns its data pointer,
\* the address of the stored pointer, for every pointer type Q*, whether
\* or not Q is the type pointed to.
C12_PointerThunk ==
    \A h \in H :
        IsLive(h) =>
            /\ RefMode(F(h), heap) <=> is_pointer_thunk(F(h).t)
            /\ RefMode(F(h), heap) =>
                  /\ heap[F(h).ptr].val \in Ext
                  /\ \A Q \in PtrTypes :
                        /\ target(F(h), Q) # NULL
                        /\ target(F(h), Q) = F(h).ptr

\* target has just returned the data pointer of the one handle there is,
\* which stores a pointer to a Square, and target<Circle*> returns the same.
C12_Witness ==
    /\ last.op = "target"
    /\ last.ret # NULL
    /\ \E h \in H :
          /\ \A g \in H : IsLive(g) <=> g = h
          /\ RefMode(F(h), heap)
          /\ Pointee(F(h), heap) = "Square"
          /\ target(F(h), "Circle*") = last.ret

----------------------------------------------------------------------------
(* C13: reference mode borrows the object pointed to *)

\* The addresses the events of ev are about.
Touched(ev) == {ev[k][2] : k \in 1..Len(ev)}

\* The handle g stores a pointer to an external object.
Borrows(g) == IsLive(g) /\ RefMode(F(g), heap) /\ heap[F(g).ptr].val \in Ext

\* Every event is about a heap buffer.
InBuffers(ev) == Touched(ev) \subseteq Addr \cup {NULL}

\* After a construction or assignment of h from g that ended with out, g
\* and its buffer are as before and h has a buffer of its own with the
\* pointer g stores.
PointerCopied(h, g, out) ==
    /\ handle'[g] = handle[g]
    /\ heap'[F(g).ptr] = heap[F(g).ptr]
    /\ out = "ok" =>
          /\ handle'[h].f.ptr \notin {NULL, F(g).ptr}
          /\ heap'[handle'[h].f.ptr].val = heap[F(g).ptr].val

C13_Step ==
    /\ last'.op # "call" => ext' = ext
    /\ last'.op = "copy_ctor" =>
          \A h, g \in H :
              Borrows(g) /\ CopyCtor(h, g, last'.out) =>
                  /\ InBuffers(construct(handle[g].c, handle[g].c, heap, F(g), FALSE, last'.out).ev)
                  /\ PointerCopied(h, g, last'.out)
    /\ last'.op \in {"convert_copy", "convert_move"} =>
          \A h, g \in H, C \in Contracts, rv \in BOOLEAN :
              Borrows(g) /\ ConvertCtor(h, C, g, rv, last'.out) =>
                  /\ InBuffers(construct(C, handle[g].c, heap, F(g), rv, last'.out).ev)
                  /\ PointerCopied(h, g, last'.out)
    /\ last'.op = "copy_assign" =>
          \A x, y \in H :
              (Borrows(x) \/ Borrows(y)) /\ CopyAssign(x, y, last'.out) =>
                  /\ InBuffers(copy_assign(handle[x].c, heap, F(x), F(y), last'.out).ev)
                  /\ Borrows(y) /\ x # y => PointerCopied(x, y, last'.out)
    /\ last'.op = "move_assign" =>
          \A x, y \in H :
              (Borrows(x) \/ Borrows(y)) /\ MoveAssign(x, y) =>
                  InBuffers(move_assign(handle[x].c, heap, F(x), F(y), x = y).ev)
    /\ last'.op = "destroy" =>
          \A g \in H :
              Borrows(g) /\ Destroy(g) =>
                  /\ destructor(heap, F(g)).ev
                        = <<<<"destroy", F(g).ptr>>, <<"delete", F(g).ptr>>>>
                  /\ heap' = [heap EXCEPT ![F(g).ptr] = FreeCell]

\* C13: no copy, move, conversion, assignment, swap or destruction of a
\* handle changes an external object, and those of a handle that stores a
\* pointer to an external object x construct, copy, move and destroy in
\* heap buffers only, never x: a copy has a buffer of its own with the
\* same pointer, and the destructor destroys the stored pointer and frees
\* its buffer.
C13_ReferenceBorrows == [][C13_Step]_vars

\* A copy assignment between handles that store a pointer has just left
\* both with the pointer to the same external object, which has its value.
C13_Witness ==
    /\ last.op = "copy_assign"
    /\ last.out = "ok"
    /\ \E e \in Ext :
          /\ ext[e] = MaxVal
          /\ \A h \in H : IsLive(h) /\ RefMode(F(h), heap) /\ heap[F(h).ptr].val = e

----------------------------------------------------------------------------
(* C14: a narrowing conversion preserves behaviour *)

\* Method m called through members j of a handle of contract D returns
\* what it returns through members i of a handle of contract S, and leaves
\* j's payload as it leaves i's; hp and ex are the state both calls start
\* from.
SameCall(m, S, i, D, j, hp, ex) ==
    LET a == dispatch(S, hp, ex, i, m)
        b == dispatch(D, hp, ex, j, m)
    IN  /\ b.ret = a.ret
        /\ b.hp[j.ptr].val = a.hp[i.ptr].val
        /\ b.ex = a.ex
        /\ Payload(j, b.hp, b.ex) = Payload(i, a.hp, a.ex)

C14_Step ==
    last'.op = "convert_copy" /\ last'.out = "ok" =>
        \A h, g \in H, C \in Contracts :
            NonEmpty(g) /\ ConvertCtor(h, C, g, FALSE, "ok") =>
                /\ Payload(handle'[h].f, heap', ext') = Payload(handle'[g].f, heap', ext')
                /\ \A k \in 1..Len(Methods(C)) :
                      /\ handle'[h].f.vtable[k] = get_method(handle[g].c, F(g), Methods(C)[k])
                      /\ handle'[h].f.vtable[k].m = Methods(C)[k]
                      /\ SameCall(Methods(C)[k], handle[g].c, handle'[g].f,
                                  C, handle'[h].f, heap', ext')

\* C14: after a non-empty handle of a contract is converted, by copy, to
\* a handle of a narrower compatible contract, the two have equal
\* payloads, each table entry of the new handle is the source's entry for
\* the method of the same name, and every method of the narrower contract
\* returns the same value and leaves the same payload on both.
C14_NarrowingPreserves == [][C14_Step]_vars

\* A Narrow handle has just been converted from a Rich handle that wraps a
\* Circle of value MaxVal.
C14_Witness ==
    /\ last.op = "convert_copy"
    /\ last.out = "ok"
    /\ \E h, g \in H :
          /\ NonEmpty(h)
          /\ NonEmpty(g)
          /\ handle[h].c = "Narrow"
          /\ handle[g].c = "Rich"
          /\ \A i \in {F(h), F(g)} : ValueMode(i, heap) /\ i.t = "Circle" /\ heap[i.ptr].val = MaxVal

----------------------------------------------------------------------------
(* C15: no internal synchronisation *)

\* The members i belong to one payload: _ptr and _t are null together,
\* the buffer holds an object of _t's type and every table entry is a
\* method of that type.
OnePayload(i, hp) ==
    /\ i.ptr = NULL <=> i.t = NullThunk
    /\ i.ptr = NULL => \A k \in DOMAIN i.vtable : i.vtable[k] = NullFn
    /\ i.ptr # NULL =>
          /\ hp[i.ptr].st = "obj"
          /\ get_thunk(hp[i.ptr].T) = i.t
          /\ \A k \in DOMAIN i.vtable : i.vtable[k] # NullFn /\ get_thunk(i.vtable[k].T) = i.t

\* A buffer that no handle has: it is leaked.
Leaked(p) == heap[p].st # "free" /\ \A h \in H : ~(IsLive(h) /\ F(h).ptr = p)

\* No buffer was freed twice, none is leaked or shared, and each handle's
\* members belong to one payload.
C15_Good ==
    /\ \A t \in Threads : thr[t].ub = "none"
    /\ \A p \in Addr : ~Leaked(p)
    /\ \A h, g \in H : h # g /\ NonEmpty(h) /\ NonEmpty(g) => F(h).ptr # F(g).ptr
    /\ \A h \in H : IsLive(h) => OnePayload(F(h), heap)

\* C15: when each of the two assignments to the shared handle ran from
\* its first step to its last with no step of the other in between, no
\* buffer is freed twice, none is leaked, and the handle's _ptr, _t and
\* _vtable belong to one payload.  (The witness is the other half: with
\* the steps interleaved a buffer is freed twice.)
C15_AtomicIsSafe ==
    (\A t \in Threads : ~Inside(t) /\ ~thr[t].raced) => C15_Good

\* Both threads have finished an assignment whose steps were interleaved
\* and one of them has freed a buffer that was freed already.
C15_Witness ==
    /\ \A t \in Threads : thr[t].pc.at = "done"
    /\ \E t \in Threads : thr[t].raced /\ thr[t].ub = "double_free"

----------------------------------------------------------------------------
(* C16: the order of a reassignment *)

\* The last position of event e in ev, 0 when it is not there.
LastAt(ev, e) ==
    LET at == {k \in 1..Len(ev) : ev[k] = e}
    IN  IF at = {} THEN 0 ELSE CHOOSE k \in at : \A j \in at : j <= k

\* The events of the assignment x = y that the step is, with success.
AssignOk(x, y) ==
    (IF CopyAssign(x, y, "ok")
     THEN {copy_assign(handle[x].c, heap, F(x), F(y), "ok").ev} ELSE {})
    \cup (IF MoveAssign(x, y)
          THEN {move_assign(handle[x].c, heap, F(x), F(y), FALSE).ev} ELSE {})

C16_OriginalStep ==
    last'.op \in {"copy_assign", "move_assign"} /\ last'.out = "ok" =>
        \A x, y \in H :
            x # y /\ NonEmpty(x) /\ NonEmpty(y) =>
                \A e \in AssignOk(x, y) :
                    LET old == F(x).ptr
                        new == handle'[x].f.ptr
                    IN  /\ LastAt(e, <<"destroy", old>>) > 0
                        /\ LastAt(e, <<"delete", old>>) > 0
                        /\ LastAt(e, <<"swap", new>>) > 0
                        /\ LastAt(e, <<"destroy", old>>) < LastAt(e, <<"delete", old>>)
                        /\ LastAt(e, <<"delete", old>>) < LastAt(e, <<"swap", new>>)

\* C16 as claimed: when a non-empty handle is assigned a new payload, its
\* old payload is destroyed and its old buffer freed before the new buffer
\* is installed in the handle.
C16_DestroyBeforeInstall == [][C16_OriginalStep]_vars

C16_Step ==
    last'.op \in {"copy_assign", "move_assign"} /\ last'.out = "ok" =>
        \A x, y \in H :
            x # y /\ NonEmpty(x) /\ NonEmpty(y) =>
                \A e \in AssignOk(x, y) :
                    LET old == F(x).ptr
                        new == handle'[x].f.ptr
                    IN  /\ new \notin {NULL, old}
                        /\ LastAt(e, <<"swap", new>>) > 0
                        /\ LastAt(e, <<"new", new>>) < LastAt(e, <<"swap", new>>)
                        /\ LastAt(e, <<"copy", new>>) < LastAt(e, <<"swap", new>>)
                        /\ LastAt(e, <<"swap", new>>) < LastAt(e, <<"destroy", old>>)
                        /\ LastAt(e, <<"destroy", old>>) < LastAt(e, <<"delete", old>>)
                        /\ \A k \in 1..Len(e) :
                              e[k][1] \in {"destroy", "delete"} => e[k][2] = old
                        /\ heap'[old] = FreeCell
                        /\ heap'[new].st = "obj"

\* C16 as amended: when a non-empty handle is assigned a new payload, the
\* new buffer, allocated and filled first in a copy assignment, is
\* installed in the handle by the swap with tmp, and the old payload is
\* destroyed and the old buffer freed after that, by tmp's destructor.
C16_InstallBeforeDestroy == [][C16_Step]_vars

\* A copy assignment between two handles that each owned a payload has
\* just given the assigned one a new buffer and freed its old one.
C16_Witness ==
    /\ last.op = "copy_assign"
    /\ last.out = "ok"
    /\ \A h \in H : NonEmpty(h)
    /\ \E p \in Addr, h \in H : heap[p].st = "free" /\ p < F(h).ptr

----------------------------------------------------------------------------
(* C17: the target of a dispatch *)

\* The position of method m in contract C.
Position(C, m) == CHOOSE k \in 1..Len(Methods(C)) : Methods(C)[k] = m

\* The type of the object the methods of i run on.
ObjectType(i, hp) == IF RefMode(i, hp) THEN Pointee(i, hp) ELSE Wrapped(i, hp)

C17_Step ==
    last'.op = "call" =>
        \A h \in H, m \in {"area", "grow"} :
            NonEmpty(h) /\ Call(h, m) =>
                LET i == F(h)
                    fn == i.vtable[Position(handle[h].c, m)]
                    v == Payload(i, heap, ext)
                IN  /\ fn # NullFn
                    /\ fn.m = m
                    /\ last'.ret = invoke(heap, ext, fn, i.ptr).ret
                    /\ last'.ret = method_result(m, ObjectType(i, heap), v)
                    /\ handle' = handle
                    /\ ValueMode(i, heap) =>
                          /\ heap' = [heap EXCEPT ![i.ptr].val = method_state(m, v)]
                          /\ ext' = ext
                    /\ RefMode(i, heap) =>
                          /\ heap' = heap
                          /\ ext' = [ext EXCEPT ![heap[i.ptr].val] = method_state(m, v)]

\* C17: a call of method m on a non-empty handle runs the table entry at
\* m's position, which is m's, on the handle's data pointer: it returns
\* what m returns on the payload in the handle's own buffer (value mode)
\* or on the external object the stored pointer points to (reference
\* mode), and what m changes is that object and nothing else.
C17_DispatchTarget == [][C17_Step]_vars

\* grow has just been called through a handle that stores a pointer to an
\* external object, while another handle owns a payload of its own with
\* another value.
C17_Witness ==
    /\ last.op = "call"
    /\ last.ret = MaxVal
    /\ \E h, g \in H :
          /\ NonEmpty(h)
          /\ NonEmpty(g)
          /\ RefMode(F(h), heap)
          /\ ValueMode(F(g), heap)
          /\ Payload(F(h), heap, ext) = MaxVal
          /\ Payload(F(g), heap, ext) = 0
          /\ Pointee(F(h), heap) = Wrapped(F(g), heap)

----------------------------------------------------------------------------
(* C18: copy or move *)

C18_Step ==
    last'.op \in {"copy_ctor", "convert_copy", "convert_move"} /\ last'.out = "ok" =>
        \A h, g \in H, C \in Contracts, rvalue \in BOOLEAN :
            /\ NonEmpty(g)
            /\ \/ C = handle[g].c /\ ~rvalue /\ CopyCtor(h, g, "ok")
               \/ ConvertCtor(h, C, g, rvalue, "ok")
            => LET e == construct(C, handle[g].c, heap, F(g), rvalue, "ok").ev
                   t == F(g).t
                   old == heap[F(g).ptr]
                   new == handle'[h].f.ptr
               IN  /\ new \notin {NULL, F(g).ptr}
                   /\ heap[new].st = "free"
                   /\ LastAt(e, <<"new", new>>) > 0
                   /\ heap'[new].size = thunk_size(t)
                   /\ heap'[new].st = "obj"
                   /\ heap'[new].val = old.val
                   /\ handle'[h].f.t = t
                   /\ handle'[g] = handle[g]
                   /\ ~rvalue =>
                         /\ LastAt(e, <<"copy", new>>) > 0
                         /\ "move" \notin Kinds(e)
                         /\ heap'[F(g).ptr] = old
                   /\ rvalue =>
                         /\ LastAt(e, <<"move", new>>) > 0
                         /\ "copy" \notin Kinds(e)
                         /\ heap'[F(g).ptr] = [old EXCEPT !.val = MovedFrom(t, old.val)]

\* C18: constructing a handle from a non-empty handle that is an lvalue
\* or const allocates a buffer of the thunk's size, calls the thunk's copy
\* and leaves the source handle and its payload unchanged; constructing
\* from a non-const rvalue of another compatible contract allocates a
\* buffer of the thunk's size and calls the thunk's move on the source's
\* payload; in both the new handle has the source's thunk.
C18_CopyOrMove == [][C18_Step]_vars

\* A copy construction has just left two handles that each own a Circle
\* of value MaxVal.
C18_Witness ==
    /\ last.op = "copy_ctor"
    /\ last.out = "ok"
    /\ \A h \in H : NonEmpty(h) /\ Wrapped(F(h), heap) = "Circle" /\ heap[F(h).ptr].val = MaxVal
    /\ \E h, g \in H : F(h).ptr # F(g).ptr

----------------------------------------------------------------------------
(* C19: the thunk's copy and move are present *)

\* C19: every non-empty handle wraps a copy-constructible type and its
\* thunk has a copy and a move, so that no copy, conversion or assignment
\* of a handle calls a null thunk entry.
C19_LifecyclePresent ==
    \A h \in H :
        NonEmpty(h) =>
            /\ is_copy_constructible(Wrapped(F(h), heap))
            /\ F(h).t # NullThunk
            /\ has_copy(F(h).t)
            /\ has_move(F(h).t)

\* A handle has just been copy-assigned from a non-empty one, through its
\* thunk's copy.
C19_Witness ==
    /\ last.op = "copy_assign"
    /\ last.out = "ok"
    /\ \A h \in H : NonEmpty(h) /\ has_copy(F(h).t)

----------------------------------------------------------------------------
(* C20: the table of a handle *)

C20_CopySameEntries ==
    last'.op \in {"copy_ctor", "copy_assign"} /\ last'.out = "ok" =>
        \A h, g \in H :
            /\ h # g
            /\ NonEmpty(g)
            /\ CopyCtor(h, g, "ok") \/ CopyAssign(h, g, "ok")
            => /\ handle'[h].f.vtable = F(g).vtable
               /\ handle'[g].f.vtable = F(g).vtable
               /\ \A k \in DOMAIN F(g).vtable : handle'[h].f.vtable[k] # NullFn

C20_OriginalStep ==
    /\ \A h \in H : IsLive(h) /\ IsLive(h)' => handle'[h].f.vtable = F(h).vtable
    /\ C20_CopySameEntries

\* C20 as claimed: the table of a handle is built when the handle is
\* constructed and no later operation on the handle changes it; a copy
\* has entry for entry the same table.
C20_NeverMutated == [][C20_OriginalStep]_vars

\* The table of a handle of contract C built for a payload with thunk t:
\* null for no payload, else the trampoline of each method of C, in C's
\* order, for one type of thunk t.
BuiltTable(C, i) ==
    IF i.ptr = NULL THEN i.vtable = EmptyFields(C).vtable
    ELSE \E U \in Types :
             /\ get_thunk(U) = i.t
             /\ \A k \in 1..Len(Methods(C)) :
                   i.vtable[k].m = Methods(C)[k] /\ i.vtable[k].T = U

C20_Step ==
    /\ \A h \in H :
          IsLive(h) /\ IsLive(h)' /\ handle'[h].f.vtable # F(h).vtable =>
              /\ last'.op \in {"copy_assign", "move_assign", "move_ctor", "swap"}
              /\ \/ handle'[h].f = EmptyFields(handle[h].c)
                 \/ \E g \in H \ {h} :
                       /\ IsLive(g)
                       /\ handle'[h].f.vtable = F(g).vtable
                       /\ handle'[h].f.t = F(g).t
    /\ \A h \in H : IsLive(h)' => BuiltTable(handle'[h].c, handle'[h].f)
    /\ C20_CopySameEntries

\* C20 as amended: the table of a handle is changed by no method call and
\* by no operation that reads the handle; it is replaced as a whole, with
\* _ptr and _t, when the handle is assigned to, moved from or swapped, by
\* the table of the other handle or the null table of an empty handle, so
\* that it is always a table as a constructor builds it for the payload
\* held; a copy has entry for entry the same table.
C20_TableReplacedWhole == [][C20_Step]_vars

\* A move assignment has just handed the table of a Circle to a handle
\* and left the other with the null table.
C20_Witness ==
    /\ last.op = "move_assign"
    /\ \E h, g \in H :
          /\ IsEmpty(g)
          /\ F(g).vtable = EmptyFields(handle[g].c).vtable
          /\ NonEmpty(h)
          /\ handle[h].c = "Rich"
          /\ \A k \in DOMAIN F(h).vtable : F(h).vtable[k].T = "Circle"

----------------------------------------------------------------------------
(* C21: the table of a handle built from a handle *)

\* The trampolines the value constructor of contract C makes.
Derived(C) == {erasure_fn(C, Methods(C)[k], U) : k \in 1..Len(Methods(C)), U \in Types}

\* Handle h has been built from handle g of contract S by the operation of
\* this step.
BuiltFrom(h, g, out) ==
    \/ last'.op = "copy_ctor" /\ CopyCtor(h, g, out)
    \/ last'.op = "convert_copy" /\ \E C \in Contracts : ConvertCtor(h, C, g, FALSE, out)
    \/ last'.op = "convert_move" /\ \E C \in Contracts : ConvertCtor(h, C, g, TRUE, out)

C21_Step ==
    last'.op \in {"copy_ctor", "convert_copy", "convert_move"} /\ last'.out = "ok" =>
        \A h, g \in H :
            BuiltFrom(h, g, "ok") =>
                LET S == handle[g].c
                    C == handle'[h].c
                    v == handle'[h].f.vtable
                IN  /\ DOMAIN v = 1..Len(Methods(C))
                    /\ \A k \in 1..Len(Methods(C)) :
                          /\ v[k] = F(g).vtable[Position(S, Methods(C)[k])]
                          /\ NonEmpty(g) => v[k].m = Methods(C)[k]
                          /\ NonEmpty(g) /\ C # S => v[k] \in Derived(S) /\ v[k] \notin Derived(C)
                          /\ IsEmpty(g) => v[k] = NullFn
                    /\ handle'[g].f.vtable = F(g).vtable

\* C21: when a handle of contract C is built from a handle of a compatible
\* contract S (copy, conversion from an lvalue or from an rvalue), entry k
\* of the new table is the entry the source's table has at the position of
\* C's k-th method in S: the source's own trampoline for the method of that
\* name, made by S and not by C for the wrapped type; the source's table is
\* left as it was.
C21_TableByName == [][C21_Step]_vars

\* A Narrow handle has just been built from an rvalue Rich handle that
\* refers to a Square: its one entry is Rich's trampoline for grow, the
\* second entry of the source.
C21_Witness ==
    /\ last.op = "convert_move"
    /\ last.out = "ok"
    /\ \E h, g \in H :
          /\ handle[h].c = "Narrow"
          /\ handle[g].c = "Rich"
          /\ NonEmpty(h)
          /\ F(h).vtable[1] = erasure_fn("Rich", "grow", "Square*")
          /\ F(h).vtable[1] = F(g).vtable[Len(Methods("Rich"))]
          /\ F(h).vtable[1] # F(g).vtable[1]

----------------------------------------------------------------------------
(* C22: the thunks are shared and read-only *)

\* C22: the thunks of the program are, whatever operations have run, the
\* constants they were initialised as; two types have the same thunk
\* address exactly when they are the same type or both pointer types; and
\* the _t of every non-empty handle is the address of the thunk of the type
\* in its buffer.
C22_ThunksReadOnly ==
    /\ thunks = [t \in Thunks |-> thunk_storage(t)]
    /\ \A T, U \in Types :
          get_thunk(T) = get_thunk(U) <=> (T = U \/ (is_pointer(T) /\ is_pointer(U)))
    /\ \A h \in H :
          NonEmpty(h) => F(h).t \in DOMAIN thunks /\ F(h).t = get_thunk(Wrapped(F(h), heap))

\* Two handles, one that refers to an object and one that wraps a Circle,
\* have just been swapped after a method call changed the Circle.
C22_Witness ==
    /\ last.op = "swap"
    /\ \E h, g \in H :
          /\ NonEmpty(h)
          /\ NonEmpty(g)
          /\ is_pointer_thunk(F(h).t)
          /\ F(g).t = get_thunk("Circle")
          /\ heap[F(g).ptr].val = MaxVal
          /\ thunks[F(g).t].size = SizeOf("Circle")

----------------------------------------------------------------------------
(* C23: no leak and no double release *)

\* What each buffer is: free, allocated with no object in it (raw), or
\* allocated with a payload (obj).
CellStates(hp) == [p \in Addr |-> hp[p].st]

\* The events that construct a payload, and those of a constructor that
\* throws.
Constructs == {"ctor", "copy", "move"}

Throws == {"ctor_throw", "copy_throw", "move_throw"}

\* The buffers after the events of ev, in order, from the buffers st: new
\* needs a free buffer and allocates it, a construction needs an allocated
\* buffer with no object, destroy needs an object, delete needs an
\* allocated buffer with no object; the other events touch no buffer.  ok
\* is false when an event finds its buffer otherwise: an object
\* constructed over another, a destroy of no object, a buffer freed with
\* its payload still in it, or freed twice.
RECURSIVE Replay(_, _)
Replay(st, ev) ==
    IF ev = <<>> THEN [ok |-> TRUE, st |-> st]
    ELSE LET kind == Head(ev)[1]
             p == Head(ev)[2]
             needs == IF kind = "new" THEN "free"
                      ELSE IF kind = "destroy" THEN "obj"
                      ELSE IF kind = "delete" \/ kind \in Constructs \/ kind \in Throws THEN "raw"
                      ELSE "any"
             leaves == IF kind = "new" \/ kind = "destroy" THEN "raw"
                       ELSE IF kind = "delete" THEN "free"
                       ELSE IF kind \in Constructs THEN "obj"
                       ELSE "raw"
         IN  IF needs = "any" THEN Replay(st, Tail(ev))
             ELSE IF p \notin Addr \/ st[p] # needs THEN [ok |-> FALSE, st |-> st]
             ELSE Replay([st EXCEPT ![p] = leaves], Tail(ev))

\* The events ev are releases and constructions in order, and the step
\* leaves the buffers as they leave them.
InOrder(ev) == Replay(CellStates(heap), ev) = [ok |-> TRUE, st |-> CellStates(heap')]

C23_Step ==
    /\ last'.op \in {"default_ctor", "move_ctor", "swap", "call"} =>
          CellStates(heap') = CellStates(heap)
    /\ last'.op = "value_ctor" =>
          \A h \in H, C \in Contracts, U \in Types :
              \A v \in InitVals(U) :
                  ValueCtor(h, C, U, v, last'.out) => InOrder(value_ctor(C, heap, U, v, last'.out).ev)
    /\ last'.op = "copy_ctor" =>
          \A h, g \in H :
              CopyCtor(h, g, last'.out) =>
                  InOrder(construct(handle[g].c, handle[g].c, heap, F(g), FALSE, last'.out).ev)
    /\ last'.op \in {"convert_copy", "convert_move"} =>
          \A h, g \in H, C \in Contracts, rv \in BOOLEAN :
              ConvertCtor(h, C, g, rv, last'.out) =>
                  InOrder(construct(C, handle[g].c, heap, F(g), rv, last'.out).ev)
    /\ last'.op = "copy_assign" =>
          \A x, y \in H :
              CopyAssign(x, y, last'.out) =>
                  InOrder(copy_assign(handle[x].c, heap, F(x), F(y), last'.out).ev)
    /\ last'.op = "move_assign" =>
          \A x, y \in H :
              MoveAssign(x, y) => InOrder(move_assign(handle[x].c, heap, F(x), F(y), x = y).ev)
    /\ last'.op = "destroy" =>
          \A h \in H : Destroy(h) => InOrder(destructor(heap, F(h)).ev)
    /\ \A p \in Addr :
          heap'[p].st # "free" =>
              /\ heap'[p].st = "obj"
              /\ Cardinality({h \in H : handle'[h].live /\ handle'[h].f.ptr = p}) = 1
    /\ (\A h \in H : ~handle'[h].live) => \A p \in Addr : heap'[p].st = "free"

\* C23: in every operation a payload is constructed only in a buffer that
\* is allocated and holds none, destroyed only where there is one, a
\* buffer is freed only when it is allocated and its payload has been
\* destroyed; after every operation each allocated buffer holds a payload
\* and is the data of exactly one handle, so that when every handle has
\* been destroyed every buffer has been freed.
C23_NoLeakNoDoubleRelease == [][C23_Step]_vars

\* The last handle of the program has just been destroyed and every
\* buffer is free.
C23_Witness ==
    /\ last.op = "destroy"
    /\ \A h \in H : ~IsLive(h)
    /\ \A p \in Addr : heap[p] = FreeCell

----------------------------------------------------------------------------
(* C24: payload, thunk and table of a handle belong together *)

\* The type a pointer type points to, and the type of the object the
\* trampoline for a payload of type T runs its method on.
Deref(T) == IF T = "Square*" THEN "Square" ELSE "Circle"

Receiver(T) == IF is_pointer(T) THEN Deref(T) ELSE T

\* The payload in the buffer of members i of a handle of contract C, its
\* thunk and every entry of its table are of one type and one mode: a
\* value of type U with U's thunk and U's trampolines, or a pointer to an
\* object of type U with the pointer thunk and the trampolines of U*.  (A
\* copied pointer is, in its buffer, the void* the pointer thunk made.)
Consistent(C, i, hp) ==
    LET P == hp[i.ptr].T
    IN  /\ hp[i.ptr].st = "obj"
        /\ i.t = get_thunk(P)
        /\ is_pointer_thunk(i.t) <=> is_pointer(P)
        /\ DOMAIN i.vtable = 1..Len(Methods(C))
        /\ \A k \in DOMAIN i.vtable :
              /\ i.vtable[k].T \in Types
              /\ i.vtable[k].m = Methods(C)[k]
              /\ get_thunk(i.vtable[k].T) = i.t
              /\ is_pointer(i.vtable[k].T) <=> is_pointer(P)
              /\ Receiver(i.vtable[k].T) = ObjectType(i, hp)

\* The type of the object, the mode, the thunk and the types of the table
\* entries.
Triple(i, hp) ==
    <<ObjectType(i, hp), RefMode(i, hp), i.t, {i.vtable[k].T : k \in DOMAIN i.vtable}>>

\* The step gave handle h what handle g had: the same type of object and
\* mode, thunk and table types.
Carried(h, g) == Triple(handle'[h].f, heap') = Triple(F(g), heap)

C24_Step ==
    /\ \A h \in H :
          handle'[h].live /\ handle'[h].f.ptr # NULL =>
              Consistent(handle'[h].c, handle'[h].f, heap')
    /\ last'.out = "ok" =>
          \A h, g \in H :
              h # g /\ NonEmpty(g) =>
                  /\ last'.op = "copy_ctor" /\ CopyCtor(h, g, "ok") => Carried(h, g) /\ Carried(g, g)
                  /\ last'.op = "move_ctor" /\ MoveCtor(h, g) => Carried(h, g)
                  /\ last'.op = "convert_copy" /\ (\E C \in Contracts : ConvertCtor(h, C, g, FALSE, "ok"))
                        => Carried(h, g) /\ Carried(g, g)
                  /\ last'.op = "convert_move" /\ (\E C \in Contracts : ConvertCtor(h, C, g, TRUE, "ok"))
                        => Carried(h, g) /\ Carried(g, g)
                  /\ last'.op = "copy_assign" /\ CopyAssign(h, g, "ok") => Carried(h, g) /\ Carried(g, g)
                  /\ last'.op = "move_assign" /\ MoveAssign(h, g) => Carried(h, g)
                  /\ last'.op = "swap" /\ Swap(h, g) =>
                        /\ Carried(h, g)
                        /\ NonEmpty(h) => Carried(g, h)

\* C24: after every operation the payload in the buffer of a non-empty
\* handle, its thunk and every entry of its table are of one type and one
\* mode; a copy, move, conversion, assignment or swap gives the receiving
\* handle the payload type, the thunk and the table types the source had,
\* all three.
C24_Consistency == [][C24_Step]_vars

\* A handle that wraps a Circle and one that refers to a Square have just
\* been swapped.
C24_Witness ==
    /\ last.op = "swap"
    /\ \E h, g \in H :
          /\ NonEmpty(h)
          /\ NonEmpty(g)
          /\ Triple(F(h), heap) = <<"Circle", FALSE, get_thunk("Circle"), {"Circle"}>>
          /\ Triple(F(g), heap) = <<"Square", TRUE, get_thunk("Square*"), {"Square*"}>>

----------------------------------------------------------------------------
(* C25: copy, move and conversion keep the type token *)

\* The types T for which target<T> of members i is not nullptr.
Targets(i) == {T \in Types : target(i, T) # NULL}

\* Handle d, after the step, answers target and is in the mode that handle
\* g answered and was in before it.
SameToken(d, g) ==
    /\ Targets(handle'[d].f) = Targets(F(g))
    /\ Targets(handle'[d].f) # {}
    /\ \A T \in Targets(F(g)) : target(handle'[d].f, T) = handle'[d].f.ptr
    /\ RefMode(handle'[d].f, heap') <=> RefMode(F(g), heap)
    /\ is_pointer_thunk(handle'[d].f.t) <=> is_pointer_thunk(F(g).t)

C25_Step ==
    last'.op \in {"copy_ctor", "move_ctor", "convert_copy", "convert_move", "copy_assign", "move_assign"}
    /\ last'.out = "ok" =>
        \A d, g \in H :
            d # g /\ NonEmpty(g) =>
                /\ last'.op = "copy_ctor" /\ CopyCtor(d, g, "ok") => SameToken(d, g)
                /\ last'.op = "move_ctor" /\ MoveCtor(d, g) => SameToken(d, g)
                /\ last'.op = "convert_copy" /\ (\E C \in Contracts : ConvertCtor(d, C, g, FALSE, "ok"))
                      => SameToken(d, g)
                /\ last'.op = "convert_move" /\ (\E C \in Contracts : ConvertCtor(d, C, g, TRUE, "ok"))
                      => SameToken(d, g)
                /\ last'.op = "copy_assign" /\ CopyAssign(d, g, "ok") => SameToken(d, g)
                /\ last'.op = "move_assign" /\ MoveAssign(d, g) => SameToken(d, g)

\* C25: a handle made from a non-empty handle by copy, by move or by
\* conversion to a narrower contract (construction or assignment) answers
\* target<T> with its data pointer for exactly the types T the source
\* answered for before the operation, and with nullptr for the others, and
\* is in reference mode exactly when the source was.
C25_TokenPreserved == [][C25_Step]_vars

\* A Narrow handle has just been made from an rvalue Rich handle that
\* wraps a Circle: target<Circle> of it is its buffer, target<Square> and
\* target of the pointer types are nullptr.
C25_Witness ==
    /\ last.op = "convert_move"
    /\ last.out = "ok"
    /\ \E d, g \in H :
          /\ handle[d].c = "Narrow"
          /\ handle[g].c = "Rich"
          /\ NonEmpty(d)
          /\ NonEmpty(g)
          /\ Targets(F(d)) = {"Circle"}
          /\ target(F(d), "Circle") = F(d).ptr
          /\ ~RefMode(F(d), heap)

----------------------------------------------------------------------------
(* C26: a move between handles of one contract transfers the pointer *)

\* Handle d has, after the step, the data pointer handle g had before it,
\* the buffer it points to is as it was, no buffer has been allocated, and
\* target of d answers as target of g did, with the same pointers.
Transferred(d, g) ==
    /\ handle'[d].f.ptr = F(g).ptr
    /\ handle'[d].c = handle[g].c
    /\ \A p \in Addr : heap[p].st = "free" => heap'[p] = heap[p]
    /\ F(g).ptr # NULL =>
          /\ heap'[F(g).ptr] = heap[F(g).ptr]
          /\ heap'[F(g).ptr].st = "obj"
    /\ \A T \in Types : target(handle'[d].f, T) = target(F(g), T)

C26_Step ==
    /\ last'.op = "move_ctor" =>
          \A d, g \in H :
              MoveCtor(d, g) =>
                  /\ Transferred(d, g)
                  /\ heap' = heap
    /\ last'.op = "move_assign" =>
          \A d, g \in H :
              MoveAssign(d, g) =>
                  LET e == move_assign(handle[d].c, heap, F(d), F(g), d = g).ev
                  IN  /\ Transferred(d, g)
                      /\ Kinds(e) \cap (Allocations \cup (LifecycleCalls \ {"destroy"})) = {}
                      /\ \A k \in 1..Len(e) :
                            e[k][1] \in {"destroy", "delete"} =>
                                e[k][2] = F(d).ptr /\ e[k][2] # F(g).ptr

\* C26: a move construction or move assignment between handles of one
\* contract allocates no buffer and calls neither copy nor move of the
\* thunk (a move assignment destroys only the payload the destination
\* held); the destination's data pointer afterwards is the source's data
\* pointer before, the payload in that buffer is untouched, and target of
\* the destination returns the pointers target of the source returned.
C26_MoveTransfersPointer == [][C26_Step]_vars

\* A move assignment has just handed the buffer of a Circle of value
\* MaxVal to the destination and left the source empty; a buffer at a
\* lower address is free.
C26_Witness ==
    /\ last.op = "move_assign"
    /\ \E d, g \in H :
          /\ IsEmpty(g)
          /\ NonEmpty(d)
          /\ Holds(F(d), heap, "Circle", MaxVal)
          /\ \E p \in Addr : p < F(d).ptr /\ heap[p].st = "free"

----------------------------------------------------------------------------
(* C27: self-assignment *)

\* Handle h is, after the step, what it was before: as empty, with the
\* same thunk and table, and with a payload of the same type and value in
\* the same mode.
SameAfter(h) ==
    /\ to_bool(handle'[h].f) <=> to_bool(F(h))
    /\ handle'[h].f.t = F(h).t
    /\ handle'[h].f.vtable = F(h).vtable
    /\ handle'[h].c = handle[h].c
    /\ to_bool(F(h)) =>
          LET old == heap[F(h).ptr]
              new == heap'[handle'[h].f.ptr]
          IN  /\ new.st = "obj"
              /\ get_thunk(new.T) = get_thunk(old.T)
              /\ new.val = old.val
              /\ new.size = old.size

\* The buffers that are allocated.
Allocated(hp) == {p \in Addr : hp[p].st # "free"}

C27_Step ==
    /\ last'.op = "copy_assign" =>
          \A h \in H :
              CopyAssign(h, h, last'.out) =>
                  /\ SameAfter(h)
                  /\ InOrder(copy_assign(handle[h].c, heap, F(h), F(h), last'.out).ev)
                  /\ Cardinality(Allocated(heap')) = Cardinality(Allocated(heap))
                  /\ \A p \in Allocated(heap') : \E g \in H : handle'[g].live /\ handle'[g].f.ptr = p
                  /\ \A g \in H \ {h} : handle'[g] = handle[g]
                  /\ last'.out # "ok" => handle' = handle /\ heap' = heap
    /\ last'.op = "move_assign" =>
          \A h \in H :
              MoveAssign(h, h) =>
                  /\ SameAfter(h)
                  /\ InOrder(move_assign(handle[h].c, heap, F(h), F(h), TRUE).ev)
                  /\ handle' = handle
                  /\ heap' = heap

\* C27: h = h and h = std::move(h) leave h as empty as it was, with the
\* same thunk and table and a payload of the same type and value; nothing
\* is destroyed twice or freed with its payload in it, as many buffers are
\* allocated afterwards as before and each belongs to a handle; the move
\* changes nothing at all, the copy gives h a new buffer and frees the old.
C27_SelfAssignment == [][C27_Step]_vars

\* The only handle of the program, which wraps a Circle of value MaxVal,
\* has just been copy-assigned to itself: it has a new buffer and the old
\* one, at a lower address, is free.
C27_Witness ==
    /\ last.op = "copy_assign"
    /\ last.out = "ok"
    /\ \E h \in H :
          /\ \A g \in H \ {h} : ~IsLive(g)
          /\ NonEmpty(h)
          /\ Holds(F(h), heap, "Circle", MaxVal)
          /\ \E p \in Addr : p < F(h).ptr /\ heap[p].st = "free"

----------------------------------------------------------------------------
(* C28: swap *)

C28_Step ==
    last'.op = "swap" =>
        \A x, y \in H :
            Swap(x, y) =>
                /\ handle'[x].f = F(y)
                /\ handle'[y].f = F(x)
                /\ \A m \in {"ptr", "t", "vtable"} :
                      handle'[x].f[m] = F(y)[m] /\ handle'[y].f[m] = F(x)[m]
                /\ handle'[x].c = handle[x].c
                /\ handle'[y].c = handle[y].c
                /\ \A h \in H \ {x, y} : handle'[h] = handle[h]
                /\ heap' = heap
                /\ ext' = ext
                /\ swap(handle'[x].f, handle'[y].f) = <<F(x), F(y)>>
                /\ swap(swap(F(x), F(y))[1], swap(F(x), F(y))[2]) = <<F(x), F(y)>>
                /\ x = y => handle' = handle

\* C28: swap(x, y) leaves x with the _ptr, _t and _vtable y had and y with
\* those x had, allocates and frees nothing and changes no payload, no
\* external object and no other handle; swapping the two again gives back
\* the members both had; swap(x, x) changes nothing.
C28_SwapExchanges == [][C28_Step]_vars

\* An empty handle and one that wraps a Square of value MaxVal have just
\* been swapped, and the Square's buffer is the only one allocated.
C28_Witness ==
    /\ last.op = "swap"
    /\ \E x, y \in H :
          /\ IsEmpty(x)
          /\ F(x) = EmptyFields(handle[x].c)
          /\ NonEmpty(y)
          /\ Holds(F(y), heap, "Square", MaxVal)
          /\ \A p \in Addr : heap[p].st # "free" <=> p = F(y).ptr

----------------------------------------------------------------------------
(* C29: == is symmetric and != is its negation *)

\* The value an operator returns: 1 for true, 0 for false.
Ret(b) == IF b THEN 1 ELSE 0

C29_Step ==
    /\ last'.op = "equal" =>
          \A a, b \in H :
              Equal(a, b) =>
                  /\ last'.ret = Ret(equals(heap, F(a), F(b)))
                  /\ last'.ret = Ret(equals(heap, F(b), F(a)))
                  /\ last'.ret = Ret(~not_equals(heap, F(a), F(b)))
                  /\ last'.ret = Ret(~not_equals(heap, F(b), F(a)))
                  /\ UNCHANGED <<handle, heap, ext, thunks>>
    /\ last'.op = "not_equal" =>
          \A a, b \in H :
              NotEqual(a, b) =>
                  /\ last'.ret = Ret(not_equals(heap, F(a), F(b)))
                  /\ last'.ret = Ret(not_equals(heap, F(b), F(a)))
                  /\ last'.ret = Ret(~equals(heap, F(a), F(b)))
                  /\ last'.ret = Ret(~equals(heap, F(b), F(a)))
                  /\ UNCHANGED <<handle, heap, ext, thunks>>

\* C29: for two handles a and b of one contract, empty, in value mode or
\* in reference mode, a == b is b == a and a != b is the negation of
\* a == b, in every state and for every evaluation of the two operators,
\* and an evaluation changes no handle, no buffer and no external object.
C29_EqualitySymmetric == [][C29_Step]_vars

\* a != b has just returned false for two handles that refer to the same
\* object.
C29_Witness ==
    /\ last.op = "not_equal"
    /\ last.ret = Ret(FALSE)
    /\ \E a, b \in H :
          /\ a # b
          /\ Borrows(a)
          /\ Borrows(b)
          /\ heap[F(a).ptr].val = heap[F(b).ptr].val
          /\ F(a).ptr # F(b).ptr

----------------------------------------------------------------------------
(* C30: == of a value-mode handle with itself is false *)

\* The members i are empty or in reference mode.
EmptyOrRef(i, hp) == i.ptr = NULL \/ RefMode(i, hp)

C30_Step ==
    /\ \A h \in H :
          handle'[h].live =>
              /\ EmptyOrRef(handle'[h].f, heap') <=> ~ValueMode(handle'[h].f, heap')
              /\ RefMode(handle'[h].f, heap') <=> is_pointer_thunk(handle'[h].f.t)
    /\ last'.op = "equal" =>
          \A h \in H :
              Equal(h, h) =>
                  /\ last'.ret = Ret(EmptyOrRef(F(h), heap))
                  /\ ValueMode(F(h), heap) => last'.ret = Ret(FALSE)
                  /\ equals(heap, F(h), F(h)) <=> EmptyOrRef(F(h), heap)
    /\ last'.op \in {"copy_ctor", "copy_assign"} /\ last'.out = "ok" =>
          \A d, g \in H :
              d # g /\ (CopyCtor(d, g, "ok") \/ CopyAssign(d, g, "ok")) =>
                  /\ equals(heap', handle'[g].f, handle'[d].f) <=> EmptyOrRef(F(g), heap)
                  /\ equals(heap', handle'[d].f, handle'[g].f) <=> EmptyOrRef(F(g), heap)
                  /\ ValueMode(F(g), heap) =>
                        /\ ~equals(heap', handle'[g].f, handle'[d].f)
                        /\ heap'[handle'[d].f.ptr].val = heap'[handle'[g].f.ptr].val

\* C30: every live handle is empty, in reference mode or in value mode;
\* h == h returns true when h is empty or in reference mode and false when
\* h is in value mode; and after h is copied (copy construction or copy
\* assignment to another handle) h == copy and copy == h are true when h
\* is empty or in reference mode and false when it is in value mode, equal
\* as the two payloads are.
C30_NotReflexive == [][C30_Step]_vars

\* The only handle of the program, which wraps a Circle of value MaxVal,
\* has just been compared with itself, and == returned false.
C30_Witness ==
    /\ last.op = "equal"
    /\ last.ret = Ret(FALSE)
    /\ \E h \in H :
          /\ \A g \in H \ {h} : ~IsLive(g)
          /\ ValueMode(F(h), heap)
          /\ Holds(F(h), heap, "Circle", MaxVal)
          /\ ~equals(heap, F(h), F(h))

====
